---- MODULE Spec2Model ----
(***************************************************************************)
(* Model of the codexline npm postinstall script (the release-acquisition  *)
(* pipeline): target resolution, retrying download with redirect           *)
(* following, staging to a temp file and rename, checksum verification,   *)
(* chmod and the top-level cleanup handler.                                *)
(*                                                                         *)
(* One run of the script is one behaviour.  The environment (server        *)
(* responses, stream errors, timeouts, filesystem errors) is chosen        *)
(* nondeterministically at each step where the code can observe it.        *)
(***************************************************************************)
EXTENDS Integers, Sequences, FiniteSets, TLC

(* ----------------------------- bounds ---------------------------------- *)

\* largest value of CODEXLINE_DOWNLOAD_RETRIES explored
MaxRetries == 3

\* number of chunks in a complete binary body
FileLen == 2

(* ------------------------- program constants --------------------------- *)

\* getResponse(url, timeoutMs, 5)
RedirectBudget == 5

\* sleep(400 * i)
BaseDelayMs == 400

\* fs.chmodSync(outPath, 0o755)
ExecMode == 493

\* mode of a file created by fs.createWriteStream (0o666 under umask 022)
CreateMode == 420

\* readPositiveInt(process.env.CODEXLINE_DOWNLOAD_TIMEOUT_MS, 20000)
DefaultTimeoutMs == 20000

\* mutant: the catch handler exits with status 0 like the skips
ExitStatusZero(how) == 0

\* The exit status of the process by the way it ends: "skip" is the
\* process.exit(0) of the skip-download and unsupported-platform exits,
\* "drained" the end of a run whose install() resolved, "failure" the
\* process.exit(1) of the install().catch handler, "uncaught" an uncaught
\* exception or unhandled rejection.
ExitStatus(how) == IF how = "skip" \/ how = "drained" THEN 0 ELSE 1

(* ----------------------------- strings --------------------------------- *)

Digit(n) == <<"0", "1", "2", "3", "4", "5", "6", "7", "8", "9">>[n + 1]

RECURSIVE DecStr(_)
\* template-literal rendering of a non-negative integer
DecStr(n) == IF n < 10 THEN Digit(n) ELSE DecStr(n \div 10) \o Digit(n % 10)

\* the characters "0".."9"
Digits == { Digit(n) : n \in 0..9 }

\* the digit a character stands for
DigitValue(c) == CHOOSE n \in 0..9 : Digit(n) = c

RECURSIVE TrimStart(_)
\* the string without its leading white space
TrimStart(v) == IF v # <<>> /\ Head(v) = " " THEN TrimStart(Tail(v)) ELSE v

RECURSIVE LeadingDigits(_)
\* the longest prefix of v made of digits
LeadingDigits(v) ==
  IF v # <<>> /\ Head(v) \in Digits THEN <<Head(v)>> \o LeadingDigits(Tail(v)) ELSE <<>>

RECURSIVE DecValue(_)
\* the number a string of digits denotes
DecValue(d) ==
  IF d = <<>> THEN 0 ELSE 10 * DecValue(SubSeq(d, 1, Len(d) - 1)) + DigitValue(d[Len(d)])

\* the value NaN
NaN == [finite |-> FALSE, n |-> 0]

\* Number.parseInt(value, 10): white space is skipped, then an optional sign
\* and the longest run of digits are read and the rest is ignored; NaN when
\* there is no digit to read.  (Strings long enough to give Infinity are not
\* among the values explored.)
parseInt(value) ==
  LET t      == TrimStart(value)
      signed == t # <<>> /\ Head(t) \in {"-", "+"}
      digits == LeadingDigits(IF signed THEN Tail(t) ELSE t)
  IN  IF digits = <<>> THEN NaN
      ELSE [finite |-> TRUE,
            n |-> IF signed /\ Head(t) = "-" THEN 0 - DecValue(digits) ELSE DecValue(digits)]

\* mutant: only negative values fall back
readPositiveIntNonNegative(value, fallback) ==
  LET parsed == parseInt(value) IN
    IF ~parsed.finite \/ parsed.n < 0 THEN fallback ELSE parsed.n

\* const parsed = Number.parseInt(value || "", 10);
\* if (!Number.isFinite(parsed) || parsed <= 0) return fallback; return parsed
readPositiveInt(value, fallback) ==
  LET parsed == parseInt(value) IN
    IF ~parsed.finite \/ parsed.n <= 0 THEN fallback ELSE parsed.n

\* readPositiveInt(process.env.CODEXLINE_DOWNLOAD_RETRIES, 3)
DefaultRetries == 3

\* an Error object: kind classifies where it arose (the code never reads it),
\* message is error.message
Err(kind, message) == [kind |-> kind, message |-> message]

NoError == [kind |-> "none", message |-> ""]

(* ------------------------------ targets -------------------------------- *)

NoTarget == [assetName |-> "", outputName |-> ""]

\* mutant: the Apple silicon branch was copied from the Intel one
resolveTargetCopied(platform, arch) ==
  IF platform = "win32" /\ arch = "x64"
    THEN [assetName |-> "codexline-windows-x64.exe", outputName |-> "codexline.exe"]
  ELSE IF platform = "linux" /\ arch = "x64"
    THEN [assetName |-> "codexline-linux-x64", outputName |-> "codexline"]
  ELSE IF platform = "linux" /\ arch = "arm64"
    THEN [assetName |-> "codexline-linux-arm64", outputName |-> "codexline"]
  ELSE IF platform = "darwin"
    THEN [assetName |-> "codexline-macos-x64", outputName |-> "codexline"]
  ELSE NoTarget

resolveTarget(platform, arch) ==
  IF platform = "win32" /\ arch = "x64"
    THEN [assetName |-> "codexline-windows-x64.exe", outputName |-> "codexline.exe"]
  ELSE IF platform = "linux" /\ arch = "x64"
    THEN [assetName |-> "codexline-linux-x64", outputName |-> "codexline"]
  ELSE IF platform = "linux" /\ arch = "arm64"
    THEN [assetName |-> "codexline-linux-arm64", outputName |-> "codexline"]
  ELSE IF platform = "darwin" /\ arch = "x64"
    THEN [assetName |-> "codexline-macos-x64", outputName |-> "codexline"]
  ELSE IF platform = "darwin" /\ arch = "arm64"
    THEN [assetName |-> "codexline-macos-arm64", outputName |-> "codexline"]
  ELSE NoTarget

\* (process.platform, process.arch) pairs explored
Hosts == { <<"win32", "x64">>, <<"linux", "arm64">>, <<"freebsd", "x64">> }

(* ---------------------------- file system ------------------------------ *)

\* content of a file: which byte source it came from and how many chunks
NoData == [id |-> "none", len |-> 0]

Absent == [exists |-> FALSE, data |-> NoData, mode |-> 0, locked |-> FALSE]

File(data, mode, locked) ==
  [exists |-> TRUE, data |-> data, mode |-> mode, locked |-> locked]

\* bodies the release server may serve for the binary URL
Bodies == {"b1", "b2"}

\* a binary installed by an earlier run
OldData == [id |-> "old", len |-> FileLen]

\* a complete file: every chunk of its source is there
Complete(f) == f.exists /\ f.data.len = FileLen


(* ------------------------------ digests -------------------------------- *)

\* number of hex characters of a digest (64 in the program, scaled down)
DigestLen == 2

IdHex(id) == IF id = "b1" THEN "a" ELSE IF id = "b2" THEN "b" ELSE IF id = "old" THEN "c" ELSE "d"

\* hash.digest("hex") of a file's content: lower-case hex, distinct for
\* distinct contents
Sha256(data) == [k \in 1..DigestLen |-> IF k = 1 THEN IdHex(data.id) ELSE Digit(data.len)]

LowerChar(c) ==
  IF c = "A" THEN "a" ELSE IF c = "B" THEN "b" ELSE IF c = "C" THEN "c"
  ELSE IF c = "D" THEN "d" ELSE IF c = "E" THEN "e" ELSE IF c = "F" THEN "f" ELSE c

UpperChar(c) ==
  IF c = "a" THEN "A" ELSE IF c = "b" THEN "B" ELSE IF c = "c" THEN "C"
  ELSE IF c = "d" THEN "D" ELSE IF c = "e" THEN "E" ELSE IF c = "f" THEN "F" ELSE c

\* mutant: the digests are compared as they are written
toLowerCaseAsIs(h) == h

\* String.prototype.toLowerCase on a hex string
toLowerCase(h) == [k \in 1..Len(h) |-> LowerChar(h[k])]

toUpperCase(h) == [k \in 1..Len(h) |-> UpperChar(h[k])]

HexChars ==
  { "0", "1", "2", "3", "4", "5", "6", "7", "8", "9",
    "a", "b", "c", "d", "e", "f", "A", "B", "C", "D", "E", "F" }

RECURSIVE JoinHex(_)
\* a digest as it is interpolated into a message
JoinHex(h) == IF h = <<>> THEN "" ELSE Head(h) \o JoinHex(Tail(h))

(* ------------------------- checksum manifest --------------------------- *)

\* One line of the manifest text after trim(): hex is the leading run of hex
\* characters, ws whether whitespace follows it, star whether the file name
\* is preceded by "*", file the path segments of the file name.
Line(hex, ws, star, file) == [hex |-> hex, ws |-> ws, star |-> star, file |-> file]

BlankLine == Line(<<>>, FALSE, FALSE, <<>>)

\* trimmed.match(/^([a-fA-F0-9]{64})\s+\*?(.+)$/)
LineMatches(line) ==
  /\ Len(line.hex) = DigestLen
  /\ \A k \in 1..Len(line.hex) : line.hex[k] \in HexChars
  /\ line.ws
  /\ line.file # <<>>

\* path.basename(fileName)
basename(file) == file[Len(file)]

\* mutant: only the bare asset name is accepted
NameMatchesExact(file, assetName) == file = <<assetName>>

\* fileName === assetName || path.basename(fileName) === assetName
NameMatches(file, assetName) ==
  \/ file = <<assetName>>
  \/ basename(file) = assetName

NoDigest == <<>>

RECURSIVE parseChecksum(_, _)
\* first matching record wins; NoDigest stands for null
parseChecksum(content, assetName) ==
  IF content = <<>> THEN NoDigest
  ELSE IF /\ Head(content) # BlankLine
          /\ LineMatches(Head(content))
          /\ NameMatches(Head(content).file, assetName)
    THEN Head(content).hex
  ELSE parseChecksum(Tail(content), assetName)

\* manifests the release server may serve for the checksum URL
Manifests(assetName) ==
  { << Line(Sha256([id |-> "b1", len |-> FileLen]), TRUE, FALSE, <<assetName>>) >>,
    << BlankLine,
       Line(toUpperCase(Sha256([id |-> "b1", len |-> FileLen])), TRUE, TRUE,
            <<"subdir", assetName>>) >>,
    << Line(Sha256([id |-> "b1", len |-> FileLen]), TRUE, FALSE, <<"codexline-other">>) >> }

NoText == << >>

(* -------------------------------- URLs --------------------------------- *)

Url(origin, path) == [origin |-> origin, path |-> path]

UrlText(u) == u.origin \o u.path

\* A string that goes into a URL is kept as the sequence of its pieces,
\* every "/" that matters being a piece of its own.
RECURSIVE Concat(_)
\* the string the pieces spell
Concat(text) == IF text = <<>> THEN "" ELSE Head(text) \o Concat(Tail(text))

\* the URL a text denotes: the origin ends before the first "/" piece
SplitUrl(text) ==
  LET i == CHOOSE k \in 1..(Len(text) + 1) :
             /\ k = Len(text) + 1 \/ text[k] = "/"
             /\ \A j \in 1..(k - 1) : text[j] # "/"
  IN  Url(Concat(SubSeq(text, 1, i - 1)), Concat(SubSeq(text, i, Len(text))))

\* mutant: value.replace(/\/$/, ""), one trailing slash is removed
trimTrailingSlashOnce(value) ==
  IF value # <<>> /\ value[Len(value)] = "/" THEN SubSeq(value, 1, Len(value) - 1) ELSE value

RECURSIVE trimTrailingSlash(_)
\* value.replace(/\/+$/, ""): the whole run of trailing slashes is removed
trimTrailingSlash(value) ==
  IF value # <<>> /\ value[Len(value)] = "/"
    THEN trimTrailingSlash(SubSeq(value, 1, Len(value) - 1))
    ELSE value

\* "https://github.com/lusipad/codexline/releases/download/v"
DefaultBaseUrl ==
  << "https://github.com", "/", "lusipad", "/", "codexline", "/", "releases", "/",
     "download", "/", "v" >>

\* version of ../package.json
PackageVersion == "1.2.3"

\* an environment variable that is not set (or set to the empty string)
Unset == << >>

\* values of the location header the server may send (here one, relative
\* to the origin of the current URL)
Locations == { [abs |-> FALSE, origin |-> "", path |-> "/mirror"] }

\* new URL(res.headers.location, url)
ResolveLocation(loc, url) ==
  IF loc.abs THEN Url(loc.origin, loc.path) ELSE Url(url.origin, loc.path)

\* statuses the server may answer with
Statuses == {200, 302, 404}

(* ------------------------------ retry ---------------------------------- *)

\* mutant: the loop goes round once more than its budget
RetryContinuesLong(i, attempts) == i <= attempts + 1

\* mutant: the loop stops one attempt early
RetryContinuesShort(i, attempts) == i < attempts

\* for (let i = 1; i <= attempts; i += 1)
RetryContinues(i, attempts) == i <= attempts

\* if (i < attempts)
RetriesRemain(i, attempts) == i < attempts

\* mutant: quadratic instead of linear backoff
BackoffSquare(i) == BaseDelayMs * i * i

\* sleep(400 * i)
Backoff(i) == BaseDelayMs * i

\* `${name} failed after ${attempts} attempts: ${lastError ? ... : "unknown error"}`
AggregateMessage(name, attempts, lastError) ==
  name \o " failed after " \o DecStr(attempts) \o " attempts: "
       \o (IF lastError # NoError THEN lastError.message ELSE "unknown error")

\* mutant: one redirect more is followed
RedirectsExhaustedLate(redirectsLeft) == redirectsLeft < 0

\* if (redirectsLeft <= 0)
RedirectsExhausted(redirectsLeft) == redirectsLeft <= 0

\* status >= 300 && status < 400 && res.headers.location
IsRedirect(status, hasLocation) == status >= 300 /\ status < 400 /\ hasLocation

(* ------------------------------- state --------------------------------- *)

VARIABLES
  cfg,        \* process.env / process.platform / process.arch, read once
  fs,         \* the files at outPath ("out") and outPath + ".tmp" ("tmp")
  pc,         \* position of the single control flow
  retry,      \* locals of the running withRetry call; invoked, failed and
              \* sleeps count the task calls, their failures and the sleeps
  fetch,      \* arguments and progress of the running getResponse chain
  checksums,  \* text returned by downloadText
  expected,   \* digest returned by parseChecksum
  error,      \* the error being thrown, on its way to the next handler
  exitCode,   \* process exit status, -1 while the process runs
  console,    \* what was written to stdout / stderr
  hist,       \* history of the run (not read by the program)
  launch      \* the run of bin/codexline.js that follows the install, if any

vars == <<cfg, fs, pc, retry, fetch, checksums, expected, error, exitCode, console, hist,
          launch>>

Running == -1

\* bin/codexline.js has not been run
NotLaunched ==
  [state |-> "none", args |-> <<>>, isTTY |-> FALSE, file |-> <<>>, runArgs |-> <<>>,
   stderr |-> <<>>, exit |-> Running, signal |-> "none"]

\* const target = resolveTarget(process.platform, process.arch)
target == resolveTarget(cfg.platform, cfg.arch)

\* path.join(...segments): the segments in order, a ".." removing the segment
\* before it
RECURSIVE Normalize(_, _)
Normalize(done, rest) ==
  IF rest = <<>> THEN done
  ELSE IF Head(rest) = ".." /\ done # <<>>
    THEN Normalize(SubSeq(done, 1, Len(done) - 1), Tail(rest))
  ELSE Normalize(Append(done, Head(rest)), Tail(rest))

pathJoin(segments) == Normalize(<<>>, segments)

\* the directory the package is installed in
PackageRoot == <<"node_modules", "codexline">>

\* __dirname of scripts/postinstall.js
InstallerDir == PackageRoot \o <<"scripts">>

\* const vendorDir = path.join(__dirname, "..", "vendor")
vendorDir == pathJoin(InstallerDir \o <<"..", "vendor">>)

\* const outPath = path.join(vendorDir, target.outputName)
outPath == pathJoin(vendorDir \o <<target.outputName>>)

\* `${outPath}.tmp`
outPathTmp == SubSeq(outPath, 1, Len(outPath) - 1) \o <<outPath[Len(outPath)] \o ".tmp">>

\* the file found at a path: the run only ever touches outPath and its .tmp
\* sibling, and nothing else lives in the vendor directory
FileAt(p) ==
  IF target # NoTarget /\ p = outPath THEN fs.out
  ELSE IF target # NoTarget /\ p = outPathTmp THEN fs.tmp
  ELSE Absent

\* fs.existsSync(p)
existsSync(p) == FileAt(p).exists

\* const version = process.env.CODEXLINE_VERSION || pkg.version
version == IF cfg.versionEnv # Unset THEN Concat(cfg.versionEnv) ELSE PackageVersion

\* const baseUrl = process.env.CODEXLINE_BASE_URL || "https://github.com/.../download/v"
baseUrl == IF cfg.baseUrlEnv # Unset THEN cfg.baseUrlEnv ELSE DefaultBaseUrl

\* mutant: a slash is put between the base and the version
releaseBaseSlashed == trimTrailingSlash(baseUrl) \o <<"/", version, "/">>

\* const releaseBase = `${trimTrailingSlash(baseUrl)}${version}/`
releaseBase == trimTrailingSlash(baseUrl) \o <<version, "/">>

\* mutant: checksum verification can not be switched off
verifyChecksumAlways == TRUE

\* const verifyChecksum = process.env.CODEXLINE_VERIFY_CHECKSUM !== "0"
verifyChecksum == cfg.verifyChecksum

\* mutant: a missing manifest or entry is always escalated
requireChecksumAlways == TRUE

\* mutant: a missing manifest or entry is never escalated
requireChecksumNever == FALSE

\* const requireChecksum = process.env.CODEXLINE_REQUIRE_CHECKSUM === "1"
requireChecksum == cfg.requireChecksum

\* const binaryUrl = releaseBase + target.assetName
binaryUrl == SplitUrl(releaseBase \o <<target.assetName>>)

\* const checksumUrl = releaseBase + "codexline-checksums.txt"
checksumUrl == SplitUrl(releaseBase \o <<"codexline-checksums.txt">>)

BinaryDownload == "binary download"

ChecksumDownload == "checksum download"

IdleRetry ==
  [name |-> "", attempts |-> 0, i |-> 0, lastError |-> NoError,
   invoked |-> 0, failed |-> 0, sleeps |-> <<>>]

\* entry of withRetry(name, attempts, task): let lastError; i = 1
NewRetry(name, attempts) ==
  [name |-> name, attempts |-> attempts, i |-> 1, lastError |-> NoError,
   invoked |-> 0, failed |-> 0, sleeps |-> <<>>]

IdleFetch ==
  [url |-> Url("", ""), redirectsLeft |-> 0, requests |-> 0, followed |-> 0,
   redirects |-> 0, body |-> "none", manifest |-> NoText]

\* getResponse(url, timeoutMs, 5) as called by downloadBinary / downloadText
NewFetch(url) ==
  [url |-> url, redirectsLeft |-> RedirectBudget, requests |-> 0, followed |-> 0,
   redirects |-> 0, body |-> "none", manifest |-> NoText]

QuietConsole == [warnings |-> 0, installed |-> FALSE, failure |-> ""]

\* Files found in the vendor directory when the run starts.  A locked file
\* is one whose unlink fails with an error other than ENOENT (EPERM, EACCES,
\* EBUSY); files the run creates itself are not locked.
InitialOut ==
  { Absent, File(OldData, ExecMode, FALSE), File(OldData, ExecMode, TRUE) }

InitialTmp ==
  { Absent, File([id |-> "old", len |-> 1], CreateMode, FALSE),
    File([id |-> "old", len |-> 1], CreateMode, TRUE) }

Configs ==
  { c \in [skipDownload : BOOLEAN, host : Hosts, downloadRetries : 1..MaxRetries,
           verifyChecksum : BOOLEAN, requireChecksum : BOOLEAN] : TRUE }

Init ==
  /\ \E c \in Configs :
       cfg = [skipDownload |-> c.skipDownload, platform |-> c.host[1], arch |-> c.host[2],
              baseUrlEnv |-> Unset, versionEnv |-> Unset,
              downloadRetries |-> readPositiveInt(<<Digit(c.downloadRetries)>>, DefaultRetries),
              verifyChecksum |-> c.verifyChecksum, requireChecksum |-> c.requireChecksum]
  /\ \E o \in InitialOut, t \in InitialTmp : fs = [out |-> o, tmp |-> t]
  /\ pc = "start"
  /\ retry = IdleRetry
  /\ fetch = IdleFetch
  /\ checksums = NoText
  /\ expected = NoDigest
  /\ error = NoError
  /\ exitCode = Running
  /\ launch = NotLaunched
  /\ console = QuietConsole
  /\ hist = [preOut |-> fs.out, attemptPre |-> fs.out,
             stage |-> "Resolve", verified |-> FALSE, attemptBytes |-> 0, networkUsed |-> FALSE,
             cleanupFailed |-> FALSE, manifestCalls |-> 0, manifestFails |-> 0]

(* --------------------------- removeFileIfExists ------------------------ *)

\* fs.unlinkSync(filePath); ENOENT is swallowed, any other error is rethrown.
\* Result: the files afterwards and the error thrown (NoError if none).
removeFileIfExists(files, p) ==
  IF ~files[p].exists
    THEN [fs |-> files, error |-> NoError]
  ELSE IF files[p].locked
    THEN [fs |-> files, error |-> Err("fs", "EPERM: operation not permitted, unlink")]
  ELSE [fs |-> [files EXCEPT ![p] = Absent], error |-> NoError]

(* ------------------------ top level (lines 17-34) ---------------------- *)

\* mutant: the skip flag is ignored
ShouldSkipNever(c) == FALSE

\* process.env.CODEXLINE_SKIP_DOWNLOAD === "1"
ShouldSkip(c) == c.skipDownload

\* if (process.env.CODEXLINE_SKIP_DOWNLOAD === "1") process.exit(0)
SkipDownload ==
  /\ pc = "start"
  /\ ShouldSkip(cfg)
  /\ pc' = "done"
  /\ exitCode' = ExitStatus("skip")
  /\ UNCHANGED <<cfg, launch, fs, retry, fetch, checksums, expected, error, console, hist>>

\* if (!target) { console.warn(...); process.exit(0) }
UnsupportedPlatform ==
  /\ pc = "start"
  /\ ~ShouldSkip(cfg)
  /\ target = NoTarget
  /\ pc' = "done"
  /\ exitCode' = ExitStatus("skip")
  /\ console' = [console EXCEPT !.warnings = @ + 1]
  /\ UNCHANGED <<cfg, launch, fs, retry, fetch, checksums, expected, error, hist>>

\* fs.mkdirSync(vendorDir, { recursive: true }); install() starts and calls
\* withRetry("binary download", downloadRetries, ...)
StartInstall ==
  /\ pc = "start"
  /\ ~ShouldSkip(cfg)
  /\ target # NoTarget
  /\ pc' = "retry_loop"
  /\ retry' = NewRetry(BinaryDownload, cfg.downloadRetries)
  /\ hist' = [hist EXCEPT !.stage = "Download"]
  /\ UNCHANGED <<cfg, launch, fs, fetch, checksums, expected, error, exitCode, console>>

\* fs.mkdirSync throws: an uncaught exception ends the process with status 1
\* (with recursive: true an existing directory is not an error, so the call
\* fails only when the vendor directory, and with it both files, is absent)
MkdirFails ==
  /\ pc = "start"
  /\ ~ShouldSkip(cfg)
  /\ target # NoTarget
  /\ ~fs.out.exists /\ ~fs.tmp.exists
  /\ pc' = "done"
  /\ exitCode' = ExitStatus("uncaught")
  /\ error' = Err("fs", "EACCES: permission denied, mkdir")
  /\ UNCHANGED <<cfg, launch, fs, retry, fetch, checksums, expected, console, hist>>

(* ----------------------- withRetry (lines 144-165) --------------------- *)

\* where the promise returned by withRetry is rejected to
RetryRejectsTo(name) == IF name = BinaryDownload THEN "catch" ELSE "cs_unavailable"

\* loop head: invoke the task while i <= attempts, else throw the aggregate error
RetryLoop ==
  /\ pc = "retry_loop"
  /\ IF RetryContinues(retry.i, retry.attempts)
       THEN /\ retry' = [retry EXCEPT !.invoked = @ + 1]
            /\ pc' = IF retry.name = BinaryDownload THEN "dl_begin" ELSE "get"
            /\ fetch' = IF retry.name = BinaryDownload THEN fetch ELSE NewFetch(checksumUrl)
            /\ hist' = IF retry.name = ChecksumDownload
                         THEN [hist EXCEPT !.manifestCalls = @ + 1] ELSE hist
            /\ UNCHANGED error
       ELSE /\ error' = Err("retry",
                            AggregateMessage(retry.name, retry.attempts, retry.lastError))
            /\ pc' = RetryRejectsTo(retry.name)
            /\ UNCHANGED <<retry, fetch, hist>>
  /\ UNCHANGED <<cfg, launch, fs, checksums, expected, exitCode, console>>

\* mutant: a timeout is taken to be permanent and ends the loop
RetryCatchClassifies ==
  /\ pc = "retry_catch"
  /\ IF RetriesRemain(retry.i, retry.attempts) /\ error.kind # "timeout"
       THEN /\ retry' = [retry EXCEPT !.lastError = error, !.failed = @ + 1,
                                      !.sleeps = Append(@, Backoff(retry.i))]
            /\ console' = [console EXCEPT !.warnings = @ + 1]
            /\ pc' = "sleeping"
       ELSE /\ retry' = [retry EXCEPT !.lastError = error, !.failed = @ + 1,
                                      !.i = retry.attempts + 1]
            /\ pc' = "retry_loop"
            /\ UNCHANGED console
  /\ error' = NoError
  /\ fetch' = IdleFetch
  /\ hist' = IF retry.name = ChecksumDownload
               THEN [hist EXCEPT !.manifestFails = @ + 1] ELSE hist
  /\ UNCHANGED <<cfg, launch, fs, checksums, expected, exitCode>>

\* catch (error) { lastError = error; if (i < attempts) { warn; await sleep(400 * i) } }
RetryCatch ==
  /\ pc = "retry_catch"
  /\ IF RetriesRemain(retry.i, retry.attempts)
       THEN /\ retry' = [retry EXCEPT !.lastError = error, !.failed = @ + 1,
                                      !.sleeps = Append(@, Backoff(retry.i))]
            /\ console' = [console EXCEPT !.warnings = @ + 1]
            /\ pc' = "sleeping"
       ELSE /\ retry' = [retry EXCEPT !.lastError = error, !.failed = @ + 1, !.i = @ + 1]
            /\ pc' = "retry_loop"
            /\ UNCHANGED console
  /\ error' = NoError
  /\ fetch' = IdleFetch
  /\ hist' = IF retry.name = ChecksumDownload
               THEN [hist EXCEPT !.manifestFails = @ + 1] ELSE hist
  /\ UNCHANGED <<cfg, launch, fs, checksums, expected, exitCode>>

\* the sleep timer fires; i += 1
SleepDone ==
  /\ pc = "sleeping"
  /\ retry' = [retry EXCEPT !.i = @ + 1]
  /\ pc' = "retry_loop"
  /\ UNCHANGED <<cfg, launch, fs, fetch, checksums, expected, error, exitCode, console, hist>>

(* --------------------- getResponse (lines 191-226) --------------------- *)

\* where a rejected getResponse promise is caught: downloadBinary's try block,
\* or (through downloadText) withRetry's
FetchRejectsTo == IF retry.name = BinaryDownload THEN "dl_catch" ELSE "retry_catch"

\* https.get(url, callback)
IssueRequest ==
  /\ pc = "get"
  /\ fetch' = [fetch EXCEPT !.requests = @ + 1]
  /\ hist' = [hist EXCEPT !.networkUsed = TRUE]
  /\ pc' = "await"
  /\ UNCHANGED <<cfg, launch, fs, retry, checksums, expected, error, exitCode, console>>

\* the response callback
OnResponse ==
  /\ pc = "await"
  /\ \E status \in Statuses, hasLocation \in BOOLEAN, loc \in Locations,
        b \in Bodies, m \in Manifests(target.assetName) :
       IF IsRedirect(status, hasLocation)
         THEN IF RedirectsExhausted(fetch.redirectsLeft)
                THEN /\ error' = Err("redirects",
                                     "too many redirects while fetching " \o UrlText(fetch.url))
                     /\ fetch' = [fetch EXCEPT !.redirects = @ + 1]
                     /\ pc' = FetchRejectsTo
                ELSE /\ fetch' = [fetch EXCEPT !.url = ResolveLocation(loc, fetch.url),
                                               !.redirectsLeft = @ - 1,
                                               !.followed = @ + 1,
                                               !.redirects = @ + 1]
                     /\ pc' = "get"
                     /\ UNCHANGED error
       ELSE IF status # 200
         THEN /\ error' = Err("http", "HTTP " \o DecStr(status) \o " from " \o UrlText(fetch.url))
              /\ pc' = FetchRejectsTo
              /\ UNCHANGED fetch
       ELSE /\ fetch' = IF retry.name = BinaryDownload
                          THEN [fetch EXCEPT !.body = b]
                          ELSE [fetch EXCEPT !.manifest = m]
            /\ pc' = IF retry.name = BinaryDownload THEN "pipe_open" ELSE "text_read"
            /\ UNCHANGED error
  /\ UNCHANGED <<cfg, launch, fs, retry, checksums, expected, exitCode, console, hist>>

\* req.setTimeout fires: req.destroy(new Error(...)) and the "error" listener rejects
OnTimeout ==
  /\ pc = "await"
  /\ error' = Err("timeout", "request timed out after " \o DecStr(DefaultTimeoutMs) \o "ms")
  /\ pc' = FetchRejectsTo
  /\ UNCHANGED <<cfg, launch, fs, retry, fetch, checksums, expected, exitCode, console, hist>>

\* req.on("error", reject): connection refused / reset, DNS failure
OnRequestError ==
  /\ pc = "await"
  /\ error' = Err("connection", "connect ECONNREFUSED")
  /\ pc' = FetchRejectsTo
  /\ UNCHANGED <<cfg, launch, fs, retry, fetch, checksums, expected, exitCode, console, hist>>

(* -------------------- downloadBinary (lines 167-180) ------------------- *)

\* dest: outPath, the final output path
dest == "out"

\* mutant: the stream is written straight to the final path
tempPathIsDest == dest

\* const tempPath = dest + ".tmp"
tempPath == "tmp"

\* mutant: a temp file left behind is not removed before the request
DlBeginKeepsTemp ==
  /\ pc = "dl_begin"
  /\ fetch' = NewFetch(binaryUrl)
  /\ pc' = "get"
  /\ hist' = [hist EXCEPT !.attemptPre = fs.out, !.attemptBytes = 0]
  /\ UNCHANGED <<cfg, launch, fs, retry, checksums, expected, error, exitCode, console>>

\* const tempPath = dest + ".tmp"; removeFileIfExists(tempPath);
\* then, inside try, getResponse(url, timeoutMs, 5) is called
DlBegin ==
  /\ pc = "dl_begin"
  /\ LET r == removeFileIfExists(fs, tempPath) IN
       /\ fs' = r.fs
       /\ IF r.error # NoError
            THEN /\ error' = r.error
                 /\ pc' = "retry_catch"
                 /\ UNCHANGED fetch
            ELSE /\ fetch' = NewFetch(binaryUrl)
                 /\ pc' = "get"
                 /\ UNCHANGED error
  /\ hist' = [hist EXCEPT !.attemptPre = fs.out, !.attemptBytes = 0]
  /\ UNCHANGED <<cfg, launch, retry, checksums, expected, exitCode, console>>

\* pipeline(response, fs.createWriteStream(tempPath)): the write stream opens
\* (creates or truncates) the temp file
PipeOpen ==
  /\ pc = "pipe_open"
  /\ fs' = [fs EXCEPT ![tempPath] = File([id |-> fetch.body, len |-> 0], CreateMode, FALSE)]
  /\ pc' = "piping"
  /\ fetch' = IdleFetch
  /\ UNCHANGED <<cfg, launch, retry, checksums, expected, error, exitCode, console, hist>>


\* one chunk of the response is written to the temp file
PipeChunk ==
  /\ pc = "piping"
  /\ fs[tempPath].data.len < FileLen
  /\ fs' = [fs EXCEPT ![tempPath].data.len = @ + 1]
  /\ hist' = [hist EXCEPT !.attemptBytes = @ + 1]
  /\ UNCHANGED <<cfg, launch, pc, retry, fetch, checksums, expected, error, exitCode, console>>

\* the response stream errors (connection reset, aborted, idle timeout)
\* before its end: pipeline destroys the write stream and rejects
PipeSourceError ==
  /\ pc = "piping"
  /\ error' = Err("stream", "aborted")
  /\ pc' = "dl_catch"
  /\ UNCHANGED <<cfg, launch, fs, retry, fetch, checksums, expected, exitCode, console, hist>>

\* opening or writing the temp file fails (EACCES, ENOSPC, EIO): pipeline rejects
PipeWriteError ==
  /\ pc = "piping"
  /\ error' = Err("fs", "ENOSPC: no space left on device, write")
  /\ pc' = "dl_catch"
  /\ UNCHANGED <<cfg, launch, fs, retry, fetch, checksums, expected, exitCode, console, hist>>

\* the response ended and every chunk is flushed: pipeline resolves
PipeFinish ==
  /\ pc = "piping"
  /\ fs[tempPath].data.len = FileLen
  /\ pc' = "dl_rmdest"
  /\ UNCHANGED <<cfg, launch, fs, retry, fetch, checksums, expected, error, exitCode, console, hist>>

\* removeFileIfExists(dest)
DlRemoveDest ==
  /\ pc = "dl_rmdest"
  /\ LET r == removeFileIfExists(fs, dest) IN
       /\ fs' = r.fs
       /\ error' = r.error
       /\ pc' = IF r.error # NoError THEN "dl_catch" ELSE "dl_rename"
  /\ UNCHANGED <<cfg, launch, retry, fetch, checksums, expected, exitCode, console, hist>>

\* the files after fs.renameSync(tempPath, dest)
renameSync(files) == [[files EXCEPT ![dest] = files[tempPath]] EXCEPT ![tempPath] = Absent]

\* fs.renameSync(tempPath, dest) succeeds: downloadBinary and withRetry return
DlRename ==
  /\ pc = "dl_rename"
  /\ fs' = renameSync(fs)
  /\ pc' = "downloaded"
  /\ UNCHANGED <<cfg, launch, retry, fetch, checksums, expected, error, exitCode, console, hist>>

\* fs.renameSync throws (EACCES, EXDEV, EBUSY)
DlRenameFails ==
  /\ pc = "dl_rename"
  /\ error' = Err("fs", "EACCES: permission denied, rename")
  /\ pc' = "dl_catch"
  /\ UNCHANGED <<cfg, launch, fs, retry, fetch, checksums, expected, exitCode, console, hist>>

\* mutant: the catch block rethrows without removing the temp file
DlCatchKeepsTemp ==
  /\ pc = "dl_catch"
  /\ pc' = "retry_catch"
  /\ fetch' = IdleFetch
  /\ UNCHANGED <<cfg, launch, fs, retry, checksums, expected, error, exitCode, console, hist>>

\* catch (error) { removeFileIfExists(tempPath); throw error; }
DlCatch ==
  /\ pc = "dl_catch"
  /\ LET r == removeFileIfExists(fs, tempPath) IN
       /\ fs' = r.fs
       /\ error' = IF r.error # NoError THEN r.error ELSE error
  /\ pc' = "retry_catch"
  /\ fetch' = IdleFetch
  /\ UNCHANGED <<cfg, launch, retry, checksums, expected, exitCode, console, hist>>

(* --------------------- downloadText (lines 182-189) -------------------- *)

\* for await (const chunk of response): the whole text is read
TextRead ==
  /\ pc = "text_read"
  /\ checksums' = fetch.manifest
  /\ pc' = "parse"
  /\ fetch' = IdleFetch
  /\ UNCHANGED <<cfg, launch, fs, retry, expected, error, exitCode, console, hist>>

\* the response stream errors while it is read: downloadText rejects
TextStreamError ==
  /\ pc = "text_read"
  /\ error' = Err("stream", "aborted")
  /\ pc' = "retry_catch"
  /\ fetch' = IdleFetch
  /\ UNCHANGED <<cfg, launch, fs, retry, checksums, expected, exitCode, console, hist>>

(* ------------------------ install (lines 43-64) ------------------------ *)

\* withRetry("binary download") has returned: if (verifyChecksum)
\* verifyBinaryChecksum(...) starts with withRetry("checksum download", retries, ...)
AfterDownload ==
  /\ pc = "downloaded"
  /\ IF verifyChecksum
       THEN /\ retry' = NewRetry(ChecksumDownload, cfg.downloadRetries)
            /\ pc' = "retry_loop"
            /\ hist' = [hist EXCEPT !.stage = "Verify"]
       ELSE /\ pc' = "finalize"
            /\ hist' = [hist EXCEPT !.stage = "Finalize"]
            /\ retry' = IdleRetry
  /\ UNCHANGED <<cfg, launch, fs, fetch, checksums, expected, error, exitCode, console>>

(* ----------------- verifyBinaryChecksum (lines 85-121) ----------------- *)

\* catch (error) of the manifest download: fail if requireChecksum, else warn
\* and return
ChecksumUnavailable ==
  /\ pc = "cs_unavailable"
  /\ IF requireChecksum
       THEN /\ error' = Err("checksum", "checksum file unavailable: " \o error.message)
            /\ pc' = "catch"
            /\ UNCHANGED <<console, hist>>
       ELSE /\ error' = NoError
            /\ console' = [console EXCEPT !.warnings = @ + 1]
            /\ pc' = "finalize"
            /\ hist' = [hist EXCEPT !.stage = "Finalize"]
  /\ retry' = IdleRetry
  /\ UNCHANGED <<cfg, launch, fs, fetch, checksums, expected, exitCode>>

\* const expected = parseChecksum(checksums, assetName); if (!expected) ...
ParseChecksum ==
  /\ pc = "parse"
  /\ LET e == parseChecksum(checksums, target.assetName) IN
       /\ expected' = e
       /\ IF e # NoDigest
            THEN /\ pc' = "hash"
                 /\ UNCHANGED <<error, console, hist>>
          ELSE IF requireChecksum
            THEN /\ error' = Err("checksum", "checksum entry missing for " \o target.assetName)
                 /\ pc' = "catch"
                 /\ UNCHANGED <<console, hist>>
          ELSE /\ console' = [console EXCEPT !.warnings = @ + 1]
               /\ pc' = "finalize"
               /\ hist' = [hist EXCEPT !.stage = "Finalize"]
               /\ UNCHANGED error
  /\ retry' = IdleRetry
  /\ UNCHANGED <<cfg, launch, fs, fetch, checksums, exitCode>>

\* mutant: the digest is compared with itself
DigestMismatchSelf(actual, wanted) == toLowerCase(actual) # toLowerCase(actual)

\* actual.toLowerCase() !== expected.toLowerCase()
DigestMismatch(actual, wanted) == toLowerCase(actual) # toLowerCase(wanted)

\* mutant: a mismatch starts the binary download again
HashFileRedownloads ==
  /\ pc = "hash"
  /\ LET actual == Sha256(fs.out.data) IN
       IF ~fs.out.exists
         THEN /\ error' = Err("fs", "ENOENT: no such file or directory, open")
              /\ pc' = "catch"
              /\ UNCHANGED <<hist, retry>>
       ELSE IF DigestMismatch(actual, expected)
         THEN /\ retry' = NewRetry(BinaryDownload, cfg.downloadRetries)
              /\ pc' = "retry_loop"
              /\ UNCHANGED <<hist, error>>
       ELSE /\ pc' = "finalize"
            /\ hist' = [hist EXCEPT !.verified = TRUE, !.stage = "Finalize"]
            /\ UNCHANGED <<error, retry>>
  /\ UNCHANGED <<cfg, launch, fs, fetch, checksums, expected, exitCode, console>>

\* const actual = await sha256File(outputPath); compare with expected
HashFile ==
  /\ pc = "hash"
  /\ LET actual == Sha256(fs.out.data) IN
       IF ~fs.out.exists
         THEN /\ error' = Err("fs", "ENOENT: no such file or directory, open")
              /\ pc' = "catch"
              /\ UNCHANGED hist
       ELSE IF DigestMismatch(actual, expected)
         THEN /\ error' = Err("checksum",
                              "checksum mismatch for " \o target.assetName \o ": expected "
                                \o JoinHex(expected) \o ", got " \o JoinHex(actual))
              /\ pc' = "catch"
              /\ UNCHANGED hist
       ELSE /\ pc' = "finalize"
            /\ hist' = [hist EXCEPT !.verified = TRUE, !.stage = "Finalize"]
            /\ UNCHANGED error
  /\ UNCHANGED <<cfg, launch, fs, retry, fetch, checksums, expected, exitCode, console>>

\* the read stream of sha256File errors (EIO, EACCES): the promise rejects
HashReadError ==
  /\ pc = "hash"
  /\ error' = Err("fs", "EIO: i/o error, read")
  /\ pc' = "catch"
  /\ UNCHANGED <<cfg, launch, fs, retry, fetch, checksums, expected, exitCode, console, hist>>

(* ------------------------ finalize (lines 59-63) ----------------------- *)

\* mutant: the platform test is inverted
NeedsChmodInverted(platform) == platform = "win32"

\* if (process.platform !== "win32")
NeedsChmod(platform) == platform # "win32"

\* fs.chmodSync(outPath, 0o755) where needed; console.log("codexline: installed");
\* install() resolves and the process ends
Finalize ==
  /\ pc = "finalize"
  /\ fs' = IF NeedsChmod(cfg.platform) THEN [fs EXCEPT !.out.mode = ExecMode] ELSE fs
  /\ console' = [console EXCEPT !.installed = TRUE]
  /\ pc' = "done"
  /\ exitCode' = ExitStatus("drained")
  /\ UNCHANGED <<cfg, launch, retry, fetch, checksums, expected, error, hist>>

\* fs.chmodSync throws (EPERM): install() rejects
ChmodFails ==
  /\ pc = "finalize"
  /\ NeedsChmod(cfg.platform)
  /\ error' = Err("fs", "EPERM: operation not permitted, chmod")
  /\ pc' = "catch"
  /\ UNCHANGED <<cfg, launch, fs, retry, fetch, checksums, expected, exitCode, console, hist>>

(* --------------------- install().catch (lines 36-41) ------------------- *)

\* mutant: the handler does not remove the output file
CleanupOutSkipped ==
  /\ pc = "catch"
  /\ pc' = "catch_tmp"
  /\ retry' = IdleRetry
  /\ UNCHANGED <<cfg, launch, fs, fetch, checksums, expected, error, exitCode, console, hist>>

\* removeFileIfExists(outPath); if it throws, the rejection is unhandled and
\* Node ends the process
CleanupOut ==
  /\ pc = "catch"
  /\ LET r == removeFileIfExists(fs, "out") IN
       /\ fs' = r.fs
       /\ IF r.error # NoError
            THEN /\ error' = r.error
                 /\ pc' = "done"
                 /\ exitCode' = ExitStatus("uncaught")
                 /\ hist' = [hist EXCEPT !.cleanupFailed = TRUE]
            ELSE /\ pc' = "catch_tmp"
                 /\ UNCHANGED <<error, exitCode, hist>>
  /\ retry' = IdleRetry
  /\ UNCHANGED <<cfg, launch, fetch, checksums, expected, console>>

\* removeFileIfExists(outPath + ".tmp"); console.error(...); process.exit(1)
CleanupTmp ==
  /\ pc = "catch_tmp"
  /\ LET r == removeFileIfExists(fs, "tmp") IN
       /\ fs' = r.fs
       /\ pc' = "done"
       /\ IF r.error # NoError
            THEN /\ error' = r.error
                 /\ exitCode' = ExitStatus("uncaught")
                 /\ hist' = [hist EXCEPT !.cleanupFailed = TRUE]
                 /\ UNCHANGED console
            ELSE /\ console' = [console EXCEPT
                                  !.failure = "codexline: failed to install binary " \o error.message]
                 /\ exitCode' = ExitStatus("failure")
                 /\ UNCHANGED <<error, hist>>
  /\ UNCHANGED <<cfg, launch, retry, fetch, checksums, expected>>

(* -------------------- bin/codexline.js (lines 1-50) -------------------- *)

\* __dirname of bin/codexline.js
DispatcherDir == PackageRoot \o <<"bin">>

\* mutant: the Windows file name is forgotten
exeUnix(platform) == "codexline"

\* const exe = process.platform === "win32" ? "codexline.exe" : "codexline"
exe(platform) == IF platform = "win32" THEN "codexline.exe" ELSE "codexline"

\* const binaryPath = path.join(__dirname, "..", "vendor", exe)
binaryPath == pathJoin(DispatcherDir \o <<"..", "vendor", exe(cfg.platform)>>)

\* const bridgePath = path.join(__dirname, "codexline-bridge.js")
bridgePath == pathJoin(DispatcherDir \o <<"codexline-bridge.js">>)

\* process.execPath
execPath == <<"node">>

\* const runArgs = args.length === 0 ? ["--plain"] : args; the terminal is
\* not consulted
runArgs(args, isTTY) == IF Len(args) = 0 THEN <<"--plain">> ELSE args

\* process.argv.slice(2) of the invocations explored
DispatchArgs == { <<>>, <<"--json">>, <<"bridge">>, <<"bridge", "serve">> }

ReinstallHint == "Try reinstalling package: npm install -g codexline"

\* the process ends at process.exit(1) after two lines on stderr
MissingExit(args, isTTY, line) ==
  [NotLaunched EXCEPT !.state = "exited", !.args = args, !.isTTY = isTTY,
                      !.stderr = <<line, ReinstallHint>>, !.exit = 1]

\* childProcess.spawn(file, argv, { stdio: "inherit" }); attachExit(child)
Spawned(args, isTTY, file, argv) ==
  [NotLaunched EXCEPT !.state = "spawned", !.args = args, !.isTTY = isTTY,
                      !.file = file, !.runArgs = argv]

\* lines 7-39: one run of the dispatcher after the installer has ended.
\* isTTY is whether it runs on a terminal, bridgeThere whether
\* bin/codexline-bridge.js is on disk.
Dispatch ==
  /\ pc = "done"
  /\ launch.state = "none"
  /\ \E args \in DispatchArgs, isTTY \in BOOLEAN, bridgeThere \in BOOLEAN :
       launch' =
         IF args # <<>> /\ args[1] = "bridge"
           THEN IF ~bridgeThere
                  THEN MissingExit(args, isTTY, "codexline-bridge helper is missing.")
                ELSE Spawned(args, isTTY, execPath, <<bridgePath>> \o Tail(args))
         ELSE IF ~existsSync(binaryPath)
           THEN MissingExit(args, isTTY, "codexline binary is missing.")
         ELSE Spawned(args, isTTY, binaryPath, runArgs(args, isTTY))
  /\ UNCHANGED <<cfg, fs, pc, retry, fetch, checksums, expected, error, exitCode, console, hist>>

\* exit codes and signals a child is seen to end with; NoCode is the null
\* code of a child that could not be waited for
NoCode == -2

ChildCodes == { 0, 1, 2, NoCode }

ChildSignals == { "none", "SIGTERM" }

\* lines 41-48: the "exit" listener. A signal is passed on to this process,
\* otherwise the child's code (1 for null) is the exit status.
OnChildExit ==
  /\ launch.state = "spawned"
  /\ \E code \in ChildCodes, signal \in ChildSignals :
       /\ (signal # "none") => code = NoCode
       /\ launch' =
            IF signal # "none"
              THEN [launch EXCEPT !.state = "killed", !.signal = signal]
            ELSE [launch EXCEPT !.state = "exited",
                                !.exit = IF code = NoCode THEN 1 ELSE code]
  /\ UNCHANGED <<cfg, fs, pc, retry, fetch, checksums, expected, error, exitCode, console, hist>>

(* ---------------------------- specification ---------------------------- *)

Next ==
  \/ SkipDownload \/ UnsupportedPlatform \/ StartInstall \/ MkdirFails
  \/ RetryLoop \/ RetryCatch \/ SleepDone
  \/ IssueRequest \/ OnResponse \/ OnTimeout \/ OnRequestError
  \/ DlBegin \/ PipeOpen \/ PipeChunk \/ PipeSourceError
  \/ PipeWriteError \/ PipeFinish \/ DlRemoveDest \/ DlRename \/ DlRenameFails
  \/ DlCatch \/ TextRead \/ TextStreamError
  \/ AfterDownload \/ ChecksumUnavailable \/ ParseChecksum \/ HashFile
  \/ HashReadError \/ Finalize \/ ChmodFails \/ CleanupOut \/ CleanupTmp

Spec == Init /\ [][Next]_vars

\* the install followed by one run of the command
DispatchNext == Next \/ Dispatch \/ OnChildExit

SpecDispatch == Init /\ [][DispatchNext]_vars

(* ------------------------------ outcomes ------------------------------- *)

Done == pc = "done"

\* the file at the final path was put there by this run
PlacedByRun(f) == f.exists /\ f.data.id \in Bodies

\* the run ended at one of the two exits of lines 17-25
SoftSkip == Done /\ hist.stage = "Resolve" /\ error = NoError

\* install() resolved
Success == Done /\ console.installed /\ error = NoError

\* an error reached the top level
HardFailure == Done /\ error # NoError

\* install() rejected while the run was in Download or Verify
AbortedEarly == HardFailure /\ hist.stage \in {"Download", "Verify"}

NetworkKinds == {"http", "redirects", "timeout", "connection", "stream"}

(* ------------------------------- claims -------------------------------- *)

\* C1: in every state of a run the file at the final output path is absent,
\* the untouched file that was there before the run, or a completely
\* transferred binary; an incomplete transfer exists only at the temp path.
C1_NoPartialAtOutput ==
  fs.out.exists =>
    \/ fs.out = hist.preOut
    \/ PlacedByRun(fs.out) /\ Complete(fs.out)

\* C1 witness: a stream error has left a partial transfer at the temp path
\* while an older binary is installed
C1_Witness ==
  /\ pc = "dl_catch"
  /\ error.kind = "stream"
  /\ fs.tmp.exists /\ fs.tmp.data.len = 1 /\ fs.tmp.data.len < FileLen
  /\ fs.out.exists

\* C2 as stated: with verification enabled, a binary this run placed at the
\* final output path has had its digest compared successfully.
C2_OnlyVerifiedAtOutput ==
  (cfg.verifyChecksum /\ PlacedByRun(fs.out)) => hist.verified

\* C2 amended: with verification enabled, a binary this run placed at the
\* final output path is still there when the process has exited only if its
\* digest equals the manifest entry (case-insensitively) or the manifest had
\* no usable entry and require-checksum is off.
C2_VerifiedOrSkippedAtExit ==
  (Done /\ cfg.verifyChecksum /\ PlacedByRun(fs.out)) =>
    \/ expected # NoDigest /\ toLowerCase(Sha256(fs.out.data)) = toLowerCase(expected)
    \/ expected = NoDigest /\ ~cfg.requireChecksum

\* C2 witness: the run has exited with a verified binary installed
C2_Witness ==
  /\ Done /\ cfg.verifyChecksum /\ PlacedByRun(fs.out)
  /\ hist.verified /\ expected # NoDigest

\* C3: when a download attempt returns an error of the request or of the
\* response stream, the final output path is as it was before the attempt
\* and no temp file exists.
C3_FailedAttemptLeavesNoTrace ==
  (pc = "retry_catch" /\ retry.name = BinaryDownload /\ error.kind \in NetworkKinds) =>
    /\ fs.out = hist.attemptPre
    /\ ~fs.tmp.exists

\* C3 witness: the stream broke after a chunk was written, an older binary
\* is installed, and the attempt has returned its error
C3_Witness ==
  /\ pc = "retry_catch" /\ retry.name = BinaryDownload
  /\ error.kind = "stream"
  /\ hist.attemptBytes = 1
  /\ fs.out.exists /\ fs.out = hist.preOut

\* C4 as stated: after an abort at Download or Verify the process exits
\* non-zero with neither the final output path nor the temp path existing.
C4_AbortRemovesBoth ==
  AbortedEarly => exitCode # 0 /\ ~fs.out.exists /\ ~fs.tmp.exists

\* C4 amended: after an abort at Download or Verify the process exits
\* non-zero, and neither path exists unless a removal of the cleanup failed
\* with an error other than ENOENT.
C4_AbortRemovesUnlessUnlinkFails ==
  AbortedEarly =>
    /\ exitCode # 0
    /\ ~hist.cleanupFailed => (~fs.out.exists /\ ~fs.tmp.exists)

\* C4 witness: a checksum mismatch aborted the run and the binary that had
\* been installed is gone
C4_Witness ==
  /\ AbortedEarly /\ hist.stage = "Verify"
  /\ error.kind = "checksum" /\ expected # NoDigest
  /\ ~hist.cleanupFailed
  /\ ~fs.out.exists /\ ~fs.tmp.exists
  /\ exitCode = 1

\* C5: a run that ends in Success leaves the complete downloaded binary at
\* the final output path and no temp file; off Windows its mode is 0755, on
\* Windows the mode is the one the file was created with.
C5_SuccessInstallsExecutable ==
  Success =>
    /\ exitCode = 0
    /\ PlacedByRun(fs.out) /\ Complete(fs.out)
    /\ ~fs.tmp.exists
    /\ cfg.platform # "win32" => fs.out.mode = 493
    /\ cfg.platform = "win32" => fs.out.mode = CreateMode

\* C5 witness: a successful run with verification on a non-Windows host
C5_Witness ==
  /\ Success /\ cfg.platform = "linux" /\ hist.verified
  /\ fs.out.mode = 493

\* C6: the exit status is 0 exactly when the run ended in Success or in a
\* soft skip and 1 exactly when an error reached the top level; no status
\* is set before the end, and a run with a mismatching digest or a required
\* but missing manifest entry does not end in Success.
C6_ExitCodeMatchesOutcome ==
  /\ ~Done => exitCode = Running
  /\ Done =>
       /\ exitCode \in {0, 1}
       /\ exitCode = 0 <=> (Success \/ SoftSkip)
       /\ exitCode = 1 <=> HardFailure
       /\ ~(Success /\ SoftSkip)
  /\ (Success /\ cfg.verifyChecksum /\ cfg.requireChecksum) => expected # NoDigest
  /\ (Success /\ expected # NoDigest) =>
       toLowerCase(Sha256(fs.out.data)) = toLowerCase(expected)

\* C6 witness: a checksum mismatch ended the run with status 1
C6_Witness ==
  /\ HardFailure /\ error.kind = "checksum" /\ expected # NoDigest
  /\ exitCode = 1

\* C7: when the skip flag is set or the host has no Target, the only step of
\* the run ends the process with status 0, issues no request and leaves the
\* output file and the temp file as they were.
C7_SoftSkipTouchesNothing ==
  [][ (cfg.skipDownload \/ resolveTarget(cfg.platform, cfg.arch) = NoTarget) =>
        /\ pc' = "done"
        /\ exitCode' = 0
        /\ fs' = fs
        /\ ~hist'.networkUsed
        /\ error' = NoError ]_vars

\* C7 witness: the run on freebsd/x64 has ended with a warning and status 0
\* while files of an earlier run are in the vendor directory
C7_Witness ==
  /\ Done /\ ~cfg.skipDownload
  /\ cfg.platform = "freebsd" /\ cfg.arch = "x64"
  /\ exitCode = 0 /\ console.warnings = 1
  /\ fs.out.exists /\ fs.tmp.exists

\* a task of withRetry is running
TaskRunning ==
  pc \in {"dl_begin", "get", "await", "pipe_open", "piping", "dl_rmdest",
          "dl_rename", "dl_catch", "text_read"}

\* withRetry has thrown its aggregate error
RetryExhausted == pc \in {"catch", "cs_unavailable"} /\ error.kind = "retry"

\* withRetry has returned the value of its task
RetryReturned ==
  \/ pc = "downloaded" /\ retry.name = BinaryDownload
  \/ pc = "parse" /\ retry.name = ChecksumDownload

\* C8: when every call of the task fails, withRetry throws after exactly
\* `attempts` calls, made one at a time (call number i runs at loop index
\* i), and its error names the operation, the number of attempts and the
\* message of the last error of the task.
C8_ExhaustionAfterNAttempts ==
  /\ TaskRunning => retry.invoked = retry.i /\ retry.failed = retry.i - 1
  /\ RetryExhausted =>
       /\ retry.attempts = cfg.downloadRetries
       /\ retry.invoked = retry.attempts
       /\ retry.failed = retry.attempts
       /\ retry.lastError # NoError
       /\ error.message =
            retry.name \o " failed after " \o DecStr(retry.attempts)
                       \o " attempts: " \o retry.lastError.message

\* C8 witness: the binary download has failed with a budget of three
C8_Witness ==
  /\ RetryExhausted /\ retry.name = BinaryDownload
  /\ retry.attempts = 3 /\ retry.invoked = 3
  /\ retry.lastError.kind = "http"

\* C9: when the task succeeds after k failures, withRetry returns after
\* k + 1 calls and k sleeps, the sleep after failure i lasting 400 * i; the
\* task is never called more often than once per failure plus one, and
\* after the last failure of an exhausted budget there is no sleep.
C9_LinearBackoff ==
  /\ retry.invoked <= retry.failed + 1
  /\ \A j \in 1..Len(retry.sleeps) : retry.sleeps[j] = 400 * j
  /\ RetryReturned =>
       /\ retry.failed < retry.attempts
       /\ retry.invoked = retry.failed + 1
       /\ Len(retry.sleeps) = retry.failed
  /\ RetryExhausted => Len(retry.sleeps) = retry.attempts - 1
  /\ pc = "sleeping" => retry.failed < retry.attempts

\* C9 witness: the download succeeded at the third call after sleeps of 400
\* and 800 ms
C9_Witness ==
  /\ RetryReturned /\ retry.name = BinaryDownload
  /\ retry.attempts = 3 /\ retry.failed = 2 /\ retry.invoked = 3
  /\ retry.sleeps = <<400, 800>>

\* getResponse has resolved with the response stream
FetchYielded == pc \in {"pipe_open", "text_read"}

\* getResponse has rejected with "too many redirects"
FetchOverflowed ==
  /\ error.kind = "redirects"
  /\ \/ pc = "dl_catch"
     \/ pc = "retry_catch" /\ retry.name = ChecksumDownload

\* C10: one fetch follows at most 5 redirects and issues at most 6
\* requests; it yields the stream only after at most 5 redirect responses,
\* each of them followed, and it fails with "too many redirects" exactly at
\* the 6th redirect response, having followed 5 and issued 6 requests.
C10_RedirectBudget ==
  /\ fetch.followed <= 5
  /\ fetch.requests <= 6
  /\ fetch.requests <= fetch.followed + 1
  /\ FetchYielded =>
       /\ fetch.redirects = fetch.followed
       /\ fetch.requests = fetch.followed + 1
  /\ FetchOverflowed =>
       /\ fetch.redirects = 6
       /\ fetch.followed = 5
       /\ fetch.requests = 6
  /\ fetch.redirects <= 5 => ~FetchOverflowed

\* C10 witness: the 6th response of a chain was again a redirect
C10_Witness ==
  /\ FetchOverflowed /\ retry.name = BinaryDownload
  /\ fetch.redirects = 6 /\ fetch.followed = 5 /\ fetch.requests = 6

\* a chain of exactly 5 redirects ended in a 200 and yielded the stream
C10_FiveHopsYield == FetchYielded /\ fetch.followed = 5 /\ fetch.requests = 6

\* message begins with prefix
StartsWith(message, prefix) ==
  Len(message) >= Len(prefix) /\ SubSeq(message, 1, Len(prefix)) = prefix

\* every call of downloadText the run made has failed, and it made some
ManifestNeverFetched == hist.manifestCalls > 0 /\ hist.manifestFails = hist.manifestCalls

\* C11: with verification and require-checksum both on and a retry budget of N,
\* a run in which every fetch of the manifest failed has called the manifest
\* fetch exactly N times once the retry loop gives up, and it ends with exit
\* status 1, no file at the output path (the downloaded binary was removed) and
\* an error message that begins with "checksum file unavailable".
C11_UnavailableManifestFails ==
  /\ (pc = "cs_unavailable") =>
       /\ ManifestNeverFetched
       /\ hist.manifestCalls = cfg.downloadRetries
       /\ retry.invoked = cfg.downloadRetries
  /\ (Done /\ cfg.verifyChecksum /\ cfg.requireChecksum /\ ManifestNeverFetched) =>
       /\ hist.manifestCalls = cfg.downloadRetries
       /\ exitCode = 1
       /\ ~fs.out.exists
       /\ StartsWith(error.message, "checksum file unavailable")
       /\ StartsWith(console.failure, "codexline: failed to install binary checksum file")
       /\ ~console.installed

C11_Witness ==
  /\ Done /\ cfg.verifyChecksum /\ cfg.requireChecksum /\ ManifestNeverFetched
  /\ cfg.downloadRetries = MaxRetries
  /\ hist.manifestCalls = MaxRetries
  /\ hist.preOut.exists
  /\ ~fs.out.exists
  /\ exitCode = 1
  /\ StartsWith(error.message, "checksum file unavailable: checksum download failed after")

\* C12: with require-checksum on, whatever the other options are, an install
\* run (one that did not stop at a soft skip) that ends without a digest for
\* the asset, because the manifest could not be fetched or holds no entry for
\* it, ends as a hard failure with exit status 1 and never as Success.
\* Violated by the code: with CODEXLINE_VERIFY_CHECKSUM=0 install() never
\* calls verifyBinaryChecksum, so requireChecksum is not looked at.
C12_RequireAlwaysEscalates ==
  (Done /\ cfg.requireChecksum /\ ~SoftSkip /\ expected = NoDigest) =>
    (HardFailure /\ exitCode = 1 /\ ~Success)

\* the step that finds the manifest unavailable or without an entry for the
\* asset, in a run that verifies but does not require the checksum
LenientMiss ==
  /\ cfg.verifyChecksum /\ ~cfg.requireChecksum
  /\ \/ pc = "cs_unavailable"
     \/ pc = "parse" /\ expected' = NoDigest

\* Finalize begins after a lenient miss
SkippedVerification ==
  /\ cfg.verifyChecksum /\ ~cfg.requireChecksum
  /\ pc = "finalize" /\ expected = NoDigest

\* C13: with verification on and require-checksum off, exhausting the manifest
\* fetch or finding no entry for the asset costs one warning and nothing else:
\* no error is raised, no digest is compared, the files stay as they are and
\* the run is at Finalize with the downloaded binary at the output path; from
\* there the run ends with exit status 0 and that binary still at the output
\* path, the one exception being a chmod that itself throws.
C13_MissingChecksumOnlyWarns ==
  [][ /\ LenientMiss =>
           /\ pc' = "finalize"
           /\ hist'.stage = "Finalize"
           /\ error' = NoError
           /\ console'.warnings = console.warnings + 1
           /\ ~console'.installed
           /\ ~hist'.verified
           /\ exitCode' = Running
           /\ fs' = fs
           /\ PlacedByRun(fs.out) /\ Complete(fs.out)
      /\ SkippedVerification =>
           \/ /\ Success'
              /\ exitCode' = 0
              /\ PlacedByRun(fs'.out) /\ Complete(fs'.out)
              /\ fs'.out.data = fs.out.data
              /\ console'.warnings = console.warnings
           \/ /\ pc' = "catch"
              /\ error' = Err("fs", "EPERM: operation not permitted, chmod")
    ]_vars

C13_Witness ==
  /\ Success /\ exitCode = 0
  /\ cfg.verifyChecksum /\ ~cfg.requireChecksum
  /\ expected = NoDigest
  /\ checksums # NoText
  /\ hist.manifestCalls > hist.manifestFails
  /\ console.warnings > hist.manifestFails
  /\ PlacedByRun(fs.out) /\ Complete(fs.out)
  /\ ~hist.verified

\* the other case of C13: the manifest fetch was exhausted
C13_WitnessUnavailable ==
  /\ Success /\ exitCode = 0
  /\ cfg.verifyChecksum /\ ~cfg.requireChecksum
  /\ ManifestNeverFetched
  /\ hist.manifestCalls = MaxRetries
  /\ PlacedByRun(fs.out) /\ Complete(fs.out)

(* ------------ verifyBinaryChecksum on arbitrary manifest digests -------- *)

\* every string of DigestLen hex characters, in either letter case
HexStrings == [1..DigestLen -> HexChars]

\* Hosts of the verification runs: one that needs chmod and one that does not
VerifyHosts == { <<"win32", "x64">>, <<"linux", "arm64">> }

\* The state in which parseChecksum is called in a run whose first binary
\* download and first manifest download succeeded: the binary is at outPath,
\* the manifest text holds one record for the asset, with any digest.
VerifyInit ==
  /\ \E h \in VerifyHosts :
       cfg = [skipDownload |-> FALSE, platform |-> h[1], arch |-> h[2],
              baseUrlEnv |-> Unset, versionEnv |-> Unset,
              downloadRetries |-> 1, verifyChecksum |-> TRUE, requireChecksum |-> FALSE]
  /\ \E b \in Bodies :
       fs = [out |-> File([id |-> b, len |-> FileLen], CreateMode, FALSE), tmp |-> Absent]
  /\ pc = "parse"
  /\ retry = [NewRetry(ChecksumDownload, 1) EXCEPT !.invoked = 1]
  /\ fetch = IdleFetch
  /\ \E d \in HexStrings :
       checksums = << Line(d, TRUE, FALSE, <<target.assetName>>) >>
  /\ expected = NoDigest
  /\ error = NoError
  /\ exitCode = Running
  /\ launch = NotLaunched
  /\ console = QuietConsole
  /\ hist = [preOut |-> Absent, attemptPre |-> Absent,
             stage |-> "Verify", verified |-> FALSE, attemptBytes |-> FileLen,
             networkUsed |-> TRUE, cleanupFailed |-> FALSE,
             manifestCalls |-> 1, manifestFails |-> 0]

VerifyNext ==
  \/ ParseChecksum \/ HashFile \/ HashReadError
  \/ Finalize \/ ChmodFails \/ CleanupOut \/ CleanupTmp

SpecVerify == VerifyInit /\ [][VerifyNext]_vars

\* the digest comparison has just been made: the file is still at outPath
Compared ==
  \/ pc = "finalize" /\ hist.verified
  \/ pc = "catch" /\ error.kind = "checksum"

\* d and e denote the same digest: they agree up to letter case
SameDigest(d, e) ==
  /\ Len(d) = Len(e)
  /\ \A i \in 1..Len(d) : LowerChar(d[i]) = LowerChar(e[i])

\* e is d with the character at exactly one position replaced by another one
OneCharChanged(d, e) ==
  /\ Len(d) = Len(e)
  /\ \E k \in 1..Len(d) : e[k] # d[k] /\ \A i \in 1..Len(d) \ {k} : e[i] = d[i]

\* e is d with the hex digit at exactly one position replaced by another digit
OneDigitChanged(d, e) ==
  /\ Len(d) = Len(e)
  /\ \E k \in 1..Len(d) :
       /\ LowerChar(e[k]) # LowerChar(d[k])
       /\ \A i \in 1..Len(d) \ {k} : e[i] = d[i]

\* the strings that differ from e in at most one position
Neighbours(e) == { [e EXCEPT ![k] = c] : k \in 1..Len(e), c \in HexChars }

\* the mismatch error names the asset, the manifest digest and the file digest
MismatchReported(wanted, actual) ==
  /\ pc = "catch"
  /\ error = Err("checksum", "checksum mismatch for " \o target.assetName \o ": expected "
                               \o JoinHex(wanted) \o ", got " \o JoinHex(actual))

\* C14 as stated: the manifest digest being any single-character change of a
\* digest D that equals the file's digest up to case, verification fails.
C14_AnyChangedCharFails ==
  Compared =>
    LET actual == Sha256(fs.out.data)
        wanted == checksums[1].hex
    IN  (\E d \in Neighbours(wanted) : SameDigest(d, actual) /\ OneCharChanged(d, wanted))
          => MismatchReported(wanted, actual)

\* C14 (amended): with a manifest record for the asset holding digest D,
\* verification succeeds when the installed file's digest equals D up to
\* letter case; replacing one hex character of such a D by a character that
\* denotes a different hex digit makes verification fail with a mismatch error
\* that names the manifest digest and the file's digest, while replacing it
\* by the same digit in the other letter case still verifies.
C14_DigestComparison ==
  Compared =>
    LET actual == Sha256(fs.out.data)
        wanted == checksums[1].hex
    IN  /\ expected = wanted
        /\ SameDigest(wanted, actual) => (pc = "finalize" /\ hist.verified /\ error = NoError)
        /\ (\E d \in Neighbours(wanted) : SameDigest(d, actual) /\ OneDigitChanged(d, wanted))
             => MismatchReported(wanted, actual)
        /\ (\E d \in Neighbours(wanted) : SameDigest(d, actual) /\ OneCharChanged(d, wanted)
                                  /\ ~OneDigitChanged(d, wanted))
             => (pc = "finalize" /\ hist.verified)

\* a digit of the manifest digest was changed and the mismatch was reported
C14_Witness ==
  /\ Compared
  /\ \E d \in Neighbours(checksums[1].hex) :
                           /\ SameDigest(d, Sha256(fs.out.data))
                           /\ OneDigitChanged(d, checksums[1].hex)
  /\ MismatchReported(checksums[1].hex, Sha256(fs.out.data))

\* the manifest digest differs from the file's digest in letter case only
C14_WitnessCase ==
  /\ Compared /\ pc = "finalize"
  /\ checksums[1].hex # Sha256(fs.out.data)
  /\ SameDigest(checksums[1].hex, Sha256(fs.out.data))

(* ------------------ parseChecksum on arbitrary manifests --------------- *)

\* longest manifest explored, in lines
MaxLines == 3

\* The lines a manifest is made of: blank; a record for the asset; a record
\* for it under a directory and with the binary-mode asterisk; a record for
\* another asset; a digest glued to the name; a digest one character short;
\* one a character long; a digest with a non-hex character; a name that has
\* the asset name as a directory, not as its basename.
ManifestLines(assetName) ==
  LET d1 == Sha256([id |-> "b1", len |-> FileLen])
      d2 == toUpperCase(Sha256([id |-> "b2", len |-> FileLen]))
  IN  { BlankLine,
        Line(d1, TRUE, FALSE, <<assetName>>),
        Line(d2, TRUE, TRUE, <<"dist", assetName>>),
        Line(d2, TRUE, FALSE, <<"codexline-other">>),
        Line(d2, FALSE, FALSE, <<assetName>>),
        Line(Tail(d2), TRUE, FALSE, <<assetName>>),
        Line(<<"0">> \o d2, TRUE, FALSE, <<assetName>>),
        Line([d2 EXCEPT ![1] = "g"], TRUE, FALSE, <<assetName>>),
        Line(d2, TRUE, FALSE, <<assetName, "sig">>) }

\* every manifest of at most MaxLines such lines
ManifestTexts(assetName) ==
  UNION { [1..n -> ManifestLines(assetName)] : n \in 0..MaxLines }

\* The state in which parseChecksum is called in a run whose first binary
\* download and first manifest download succeeded, for any manifest text.
ParseInit ==
  /\ \E h \in VerifyHosts, r \in BOOLEAN :
       cfg = [skipDownload |-> FALSE, platform |-> h[1], arch |-> h[2],
              baseUrlEnv |-> Unset, versionEnv |-> Unset,
              downloadRetries |-> 1, verifyChecksum |-> TRUE, requireChecksum |-> r]
  /\ fs = [out |-> File([id |-> "b1", len |-> FileLen], CreateMode, FALSE), tmp |-> Absent]
  /\ pc = "parse"
  /\ retry = [NewRetry(ChecksumDownload, 1) EXCEPT !.invoked = 1]
  /\ fetch = IdleFetch
  /\ checksums \in ManifestTexts(target.assetName)
  /\ expected = NoDigest
  /\ error = NoError
  /\ exitCode = Running
  /\ launch = NotLaunched
  /\ console = QuietConsole
  /\ hist = [preOut |-> Absent, attemptPre |-> Absent,
             stage |-> "Verify", verified |-> FALSE, attemptBytes |-> FileLen,
             networkUsed |-> TRUE, cleanupFailed |-> FALSE,
             manifestCalls |-> 1, manifestFails |-> 0]

ParseNext ==
  \/ ParseChecksum \/ HashFile \/ HashReadError
  \/ Finalize \/ ChmodFails \/ CleanupOut \/ CleanupTmp

SpecParse == ParseInit /\ [][ParseNext]_vars

\* line is a record for assetName: DigestLen hex characters, whitespace, an
\* optional asterisk and a file name that is assetName or ends in /assetName
RecordFor(line, assetName) ==
  /\ Len(line.hex) = DigestLen
  /\ \A k \in 1..Len(line.hex) : line.hex[k] \in HexChars
  /\ line.ws
  /\ Len(line.file) >= 1
  /\ line.file[Len(line.file)] = assetName

\* positions of the records for assetName in a manifest
RecordsFor(content, assetName) ==
  { i \in 1..Len(content) : RecordFor(content[i], assetName) }

\* C15: parseChecksum returns the digest, as written, of the first line in
\* manifest order that is a record for the asset (64 hex characters,
\* whitespace, an optional asterisk, a file name equal to the asset name or
\* with the asset name as its basename); blank lines and lines of any other
\* form are passed over, records after the first one for the asset do not
\* matter, and no digest is returned when the manifest has no such record.
C15_FirstRecordWins ==
  (pc # "parse") =>
    LET recs == RecordsFor(checksums, target.assetName) IN
      IF recs = {}
        THEN expected = NoDigest
        ELSE \E i \in recs : /\ \A j \in recs : i <= j
                             /\ expected = checksums[i].hex

\* two records for the asset with different digests behind a line that is
\* none: the first record's digest was returned
C15_Witness ==
  /\ pc # "parse"
  /\ Len(checksums) = 3
  /\ RecordsFor(checksums, target.assetName) = {2, 3}
  /\ checksums[1] # BlankLine
  /\ checksums[2].hex # checksums[3].hex
  /\ checksums[2].file # <<target.assetName>>
  /\ expected = checksums[2].hex

\* a manifest of lines none of which is a record for the asset
C15_WitnessNone ==
  /\ pc # "parse"
  /\ Len(checksums) = MaxLines
  /\ expected = NoDigest

(* ------- target and URLs for arbitrary hosts, bases and versions ------- *)

\* most slashes at the end of a configured base
MaxSlashes == 2

\* a run of n slashes
Slashes(n) == [k \in 1..n |-> "/"]

\* values of CODEXLINE_BASE_URL: the default written out, a mirror with a
\* path and a bare origin, each followed by up to MaxSlashes slashes
BaseUrls ==
  { stem \o Slashes(n) :
      stem \in { DefaultBaseUrl,
                 << "https://mirror.test", "/", "releases", "/", "v" >>,
                 << "https://mirror.test", "/", "codexline-" >> },
      n \in 0..MaxSlashes }

\* values of CODEXLINE_VERSION
Versions == { << "0.9.0" >>, << "2.0.0-rc.1" >> }

\* values of process.platform and process.arch
Platforms == { "win32", "linux", "darwin", "freebsd", "aix" }

Archs == { "x64", "arm64", "ia32", "arm" }

\* a run on any host, with any base and version, that finds an empty vendor
\* directory
LocateInit ==
  /\ \E p \in Platforms, a \in Archs, skip \in BOOLEAN,
        b \in BaseUrls \cup {Unset}, v \in Versions \cup {Unset} :
       cfg = [skipDownload |-> skip, platform |-> p, arch |-> a,
              baseUrlEnv |-> b, versionEnv |-> v,
              downloadRetries |-> 1, verifyChecksum |-> TRUE, requireChecksum |-> FALSE]
  /\ fs = [out |-> Absent, tmp |-> Absent]
  /\ pc = "start"
  /\ retry = IdleRetry
  /\ fetch = IdleFetch
  /\ checksums = NoText
  /\ expected = NoDigest
  /\ error = NoError
  /\ exitCode = Running
  /\ launch = NotLaunched
  /\ console = QuietConsole
  /\ hist = [preOut |-> fs.out, attemptPre |-> fs.out,
             stage |-> "Resolve", verified |-> FALSE, attemptBytes |-> 0, networkUsed |-> FALSE,
             cleanupFailed |-> FALSE, manifestCalls |-> 0, manifestFails |-> 0]

\* the run up to its first request
LocateNext ==
  \/ SkipDownload \/ UnsupportedPlatform \/ StartInstall \/ MkdirFails
  \/ RetryLoop \/ DlBegin \/ IssueRequest

SpecLocate == LocateInit /\ [][LocateNext]_vars

\* t is b without its trailing slashes
IsTrimOf(t, b) ==
  /\ \E n \in 0..Len(b) : b = t \o Slashes(n)
  /\ t = <<>> \/ t[Len(t)] # "/"

\* the prefixes of b
Prefixes(b) == { SubSeq(b, 1, n) : n \in 0..Len(b) }

\* lines 27-29 have been executed
UrlsBuilt == pc # "start" /\ target # NoTarget

\* C16 as stated: the binary URL is <base>/<version>/<assetName> and the
\* manifest URL <base>/<version>/codexline-checksums.txt, <base> being the
\* configured base without its trailing slashes.
C16_SlashBetweenBaseAndVersion ==
  UrlsBuilt =>
    \E t \in Prefixes(baseUrl) :
      /\ IsTrimOf(t, baseUrl)
      /\ UrlText(binaryUrl) = Concat(t) \o "/" \o version \o "/" \o target.assetName
      /\ UrlText(checksumUrl) = Concat(t) \o "/" \o version \o "/codexline-checksums.txt"

\* C16 (amended): the binary URL is <base><version>/<assetName> and the
\* manifest URL <base><version>/codexline-checksums.txt, <base> being the
\* configured base without its trailing slashes: the version follows the base
\* directly (the default base ends in "/v"), one slash separates the version
\* from the file name, and the first request of the run goes to the binary URL.
C16_VersionAppendedToBase ==
  UrlsBuilt =>
    \E t \in Prefixes(baseUrl) :
      /\ IsTrimOf(t, baseUrl)
      /\ UrlText(binaryUrl) = Concat(t) \o version \o "/" \o target.assetName
      /\ UrlText(checksumUrl) = Concat(t) \o version \o "/codexline-checksums.txt"
      /\ (pc = "await") => fetch.url = binaryUrl
      /\ (cfg.baseUrlEnv = Unset /\ cfg.versionEnv = Unset) =>
           UrlText(binaryUrl) =
             "https://github.com/lusipad/codexline/releases/download/v1.2.3/"
               \o target.assetName

\* a request went out for a base configured with trailing slashes
C16_Witness ==
  /\ pc = "await" /\ fetch.requests = 1
  /\ cfg.baseUrlEnv = << "https://mirror.test", "/", "releases", "/", "v", "/", "/" >>
  /\ cfg.versionEnv = << "0.9.0" >>
  /\ cfg.platform = "linux" /\ cfg.arch = "x64"
  /\ UrlText(fetch.url) = "https://mirror.test/releases/v0.9.0/codexline-linux-x64"

\* C17: trimTrailingSlash is idempotent, and the URLs derived from a base that
\* ends in slashes are those derived from the same base ending in one slash,
\* however many slashes there are.
C17_TrimIdempotent ==
  /\ trimTrailingSlash(trimTrailingSlash(baseUrl)) = trimTrailingSlash(baseUrl)
  /\ \A t \in Prefixes(baseUrl) :
       (IsTrimOf(t, baseUrl) /\ t # baseUrl /\ UrlsBuilt) =>
         LET one == trimTrailingSlash(t \o <<"/">>) \o <<version, "/">> IN
           /\ binaryUrl = SplitUrl(one \o <<target.assetName>>)
           /\ checksumUrl = SplitUrl(one \o <<"codexline-checksums.txt">>)
           /\ (pc = "await") =>
                UrlText(fetch.url) = Concat(t) \o version \o "/" \o target.assetName

\* a request went out for a base that ends in more than one slash
C17_Witness ==
  /\ pc = "await" /\ fetch.requests = 1
  /\ Len(baseUrl) >= 2
  /\ baseUrl[Len(baseUrl)] = "/" /\ baseUrl[Len(baseUrl) - 1] = "/"
  /\ trimTrailingSlash(baseUrl) # baseUrl
  /\ fetch.url = binaryUrl

\* the five (platform, arch) pairs a binary is released for
SupportedPairs ==
  { <<"win32", "x64">>, <<"linux", "x64">>, <<"linux", "arm64">>,
    <<"darwin", "x64">>, <<"darwin", "arm64">> }

\* C18: resolveTarget returns a target for exactly the five pairs win32/x64,
\* linux/x64, linux/arm64, darwin/x64 and darwin/arm64 and null for every
\* other pair, whatever else is configured; the asset names of distinct pairs
\* are distinct and are the released artifacts; the output name is
\* codexline.exe on Windows and codexline elsewhere.  A run goes on to install
\* exactly when a target was returned.
C18_FiveTargets ==
  LET pair == <<cfg.platform, cfg.arch>> IN
    /\ (target # NoTarget) <=> (pair \in SupportedPairs)
    /\ (target # NoTarget) =>
         /\ target.outputName = IF cfg.platform = "win32" THEN "codexline.exe" ELSE "codexline"
         /\ target.assetName \in
              { "codexline-windows-x64.exe", "codexline-linux-x64", "codexline-linux-arm64",
                "codexline-macos-x64", "codexline-macos-arm64" }
    /\ \A q \in SupportedPairs :
         (q # pair /\ target # NoTarget) =>
           resolveTarget(q[1], q[2]).assetName # target.assetName
    /\ (pc \notin {"start", "done"}) => pair \in SupportedPairs
    /\ (Done /\ ~cfg.skipDownload /\ error = NoError) =>
         (pair \notin SupportedPairs /\ console.warnings = 1 /\ exitCode = 0)

\* a run on Apple silicon is downloading its own asset
C18_Witness ==
  /\ pc = "await"
  /\ cfg.platform = "darwin" /\ cfg.arch = "arm64"
  /\ target = [assetName |-> "codexline-macos-arm64", outputName |-> "codexline"]
  /\ UrlText(fetch.url) =
       "https://github.com/lusipad/codexline/releases/download/v1.2.3/codexline-macos-arm64"

\* a supported platform with an unsupported architecture is skipped
C18_WitnessNull ==
  /\ Done /\ cfg.platform = "linux" /\ cfg.arch = "ia32"
  /\ target = NoTarget /\ exitCode = 0 /\ console.warnings = 1

(* ------------------------------ ordering ------------------------------- *)

StageRank(stage) ==
  IF stage = "Resolve" THEN 0 ELSE IF stage = "Download" THEN 1
  ELSE IF stage = "Verify" THEN 2 ELSE 3

\* this step sends a request (the first of a fetch or one that follows a redirect)
RequestSent == fetch'.requests = fetch.requests + 1

\* this step calls the task of the running withRetry
TaskCalled == retry'.name = retry.name /\ retry'.invoked = retry.invoked + 1

\* this step is the chmod or the success message of Finalize
Finalizing ==
  \/ fs'.out.mode = ExecMode /\ fs.out.mode # ExecMode
  \/ console'.installed /\ ~console.installed

\* C19: the stages of a run only move forward, Download, Verify, Finalize.
\* A request for the manifest is sent only in Verify, with the complete binary
\* of this run at the output path; a request for the binary is sent only in
\* Download, before any manifest call; chmod and the success message happen
\* only in Finalize, after verification has passed or was skipped, with no
\* retry loop running; a task is called only when every earlier call of the
\* same loop has failed and no fetch is in progress; and once a checksum error
\* is raised no request is sent and no task is called any more.
C19_StagesInOrder ==
  [][ /\ StageRank(hist'.stage) >= StageRank(hist.stage)
      /\ (RequestSent /\ retry.name = ChecksumDownload) =>
           /\ hist.stage = "Verify"
           /\ PlacedByRun(fs.out) /\ Complete(fs.out)
           /\ ~fs.tmp.exists
      /\ (RequestSent /\ retry.name = BinaryDownload) =>
           /\ hist.stage = "Download"
           /\ hist.manifestCalls = 0
           /\ checksums = NoText /\ expected = NoDigest
      /\ RequestSent => retry.name \in {BinaryDownload, ChecksumDownload}
      /\ Finalizing =>
           /\ hist.stage = "Finalize" /\ pc = "finalize"
           /\ retry = IdleRetry /\ fetch = IdleFetch
           /\ cfg.verifyChecksum => (hist.verified \/ expected = NoDigest)
           /\ PlacedByRun(fs.out) /\ Complete(fs.out)
      /\ TaskCalled =>
           /\ retry.failed = retry.invoked
           /\ retry.invoked = retry.i - 1
           /\ fetch = IdleFetch
      /\ (error.kind = "checksum" \/ pc = "hash") =>
           /\ ~RequestSent
           /\ retry' = IdleRetry /\ fetch' = IdleFetch
           /\ hist'.manifestCalls = hist.manifestCalls
           /\ hist'.stage = hist.stage \/ hist'.verified
    ]_vars

\* a run that retried both downloads ended on a checksum mismatch after a
\* single successful manifest fetch
C19_Witness ==
  /\ Done /\ hist.stage = "Verify"
  /\ StartsWith(error.message, "checksum mismatch for ")
  /\ hist.manifestCalls = 2 /\ hist.manifestFails = 1
  /\ console.warnings >= 2
  /\ ~fs.out.exists

\* the errors of writing the temp file and of renaming it
StagingErrors ==
  { Err("fs", "ENOSPC: no space left on device, write"),
    Err("fs", "EACCES: permission denied, rename") }

\* C20: a filesystem failure while the temp file is written or renamed is
\* propagated at once and not retried: once withRetry has caught such a
\* failure of the binary download it neither sleeps nor calls the download
\* again in that run.
\* Violated by the code: downloadBinary rethrows the error into withRetry,
\* which treats it like any other and goes on to the next attempt.
C20_StagingFailureNotRetried ==
  (retry.name = BinaryDownload /\ retry.lastError \in StagingErrors) =>
    /\ pc # "sleeping"
    /\ retry.invoked = retry.failed

(* --------------------------- error handling ---------------------------- *)

\* the kinds of error a task of withRetry fails with
TaskErrorKinds == NetworkKinds \cup {"fs"}

\* C21: withRetry does not look at the error it catches.  Whatever its kind
\* (connection error, timeout, non-200 status, redirect overflow, broken
\* stream, filesystem error), a failure of call i < attempts is recorded as
\* the last error, warned about and followed by the sleep and then by call
\* i + 1, the process still running; a timeout rejects only the fetch in
\* flight and hands the error to the task's caller; and the error thrown on
\* exhaustion carries the message of the last call's failure and no other.
C21_EveryFailureRetried ==
  [][ /\ (pc = "retry_catch") =>
           /\ error.kind \in TaskErrorKinds
           /\ retry'.lastError = error
           /\ retry'.failed = retry.failed + 1
           /\ exitCode' = Running
           /\ IF retry.i < retry.attempts
                THEN /\ pc' = "sleeping"
                     /\ console'.warnings = console.warnings + 1
                     /\ retry'.i = retry.i
                ELSE /\ pc' = "retry_loop"
                     /\ retry'.i = retry.attempts + 1
      /\ (pc = "sleeping") =>
           /\ pc' = "retry_loop"
           /\ retry'.i = retry.i + 1 /\ retry'.i <= retry.attempts
           /\ retry'.lastError = retry.lastError
      /\ (pc = "retry_loop" /\ retry.i <= retry.attempts) =>
           /\ TaskCalled
           /\ retry'.invoked = retry.i
           /\ pc' \in {"dl_begin", "get"}
      /\ (pc = "retry_loop" /\ retry.i > retry.attempts) =>
           /\ error'.kind = "retry"
           /\ error'.message = retry.name \o " failed after " \o DecStr(retry.attempts)
                                 \o " attempts: " \o retry.lastError.message
           /\ pc' \in {"catch", "cs_unavailable"}
      /\ (pc = "await" /\ error'.kind = "timeout") =>
           /\ pc' \in {"dl_catch", "retry_catch"}
           /\ exitCode' = Running
           /\ retry' = retry /\ fs' = fs
    ]_vars

\* the second call's request is in flight after the first call timed out
C21_Witness ==
  /\ pc = "await" /\ exitCode = Running
  /\ retry.invoked = 2 /\ retry.i = 2 /\ retry.failed = 1
  /\ retry.lastError.kind = "timeout"

\* the same after a redirect overflow, for the manifest
C21_WitnessOverflow ==
  /\ pc = "await" /\ retry.name = ChecksumDownload
  /\ retry.invoked = 2 /\ retry.lastError.kind = "redirects"

\* an exhausted budget surfaces the last failure, not an earlier one
C21_WitnessLast ==
  /\ Done /\ exitCode = 1
  /\ cfg.downloadRetries = 2 /\ hist.stage = "Download"
  /\ error.message = "binary download failed after 2 attempts: connect ECONNREFUSED"
  /\ console.warnings = 1

\* C23: every call of downloadBinary starts clean, whatever its number: it
\* begins with no fetch state and no pending error, no file is at the temp
\* path while its requests are out, the fetch starts at the binary URL with
\* no request sent and a redirect budget of 5, the write stream starts the
\* temp file at length 0 with the body of this response, and the temp file
\* holds the chunks of this call only.  What the loop keeps between calls is
\* its index and the last error.
C23_FreshAttempt ==
  [][ /\ (pc = "dl_begin") =>
           /\ fetch = IdleFetch /\ error = NoError
           /\ retry.name = BinaryDownload /\ retry.invoked = retry.i
           /\ (pc' = "get") =>
                /\ ~fs'.tmp.exists
                /\ fetch'.url = binaryUrl
                /\ fetch'.redirectsLeft = 5
                /\ fetch'.requests = 0 /\ fetch'.followed = 0 /\ fetch'.redirects = 0
           /\ retry' = retry
      /\ (pc \in {"get", "await"} /\ retry.name = BinaryDownload) => ~fs.tmp.exists
      /\ (pc = "pipe_open") =>
           /\ fs'.tmp.exists
           /\ fs'.tmp.data = [id |-> fetch.body, len |-> 0]
      /\ (pc = "piping") =>
           /\ fs.tmp.exists
           /\ fs.tmp.data.len = hist.attemptBytes
           /\ fs.tmp.data.len <= FileLen
    ]_vars

\* the second call has its first request out, after a first call that broke
\* off while the body was read
C23_Witness ==
  /\ pc = "await" /\ retry.name = BinaryDownload
  /\ retry.i = 2 /\ retry.lastError.kind = "stream"
  /\ fetch.requests = 1 /\ fetch.redirectsLeft = 5
  /\ ~fs.tmp.exists

\* the third call writes its first chunk
C23_WitnessThird ==
  /\ pc = "piping" /\ retry.i = 3
  /\ fs.tmp.data.len = 1 /\ hist.attemptBytes = 1

(* ----------------------------- termination ----------------------------- *)

\* Every step of a run is a callback or a continuation the event loop runs
\* once it is ready: a response, a request error or the request timeout
\* arrives for every request that is out, streams deliver their chunks, end
\* or fail, and the sleep timer fires.  Hence a run that can take a step
\* eventually takes one.
FairSpec == Spec /\ WF_vars(Next)

\* C25: every run reaches a terminal outcome with exit status 0 or 1, and on
\* the way the binary download is called at most N times and the manifest
\* download at most N times, N being the budget, and a fetch sends at most 6
\* requests, the first and one for each of at most 5 followed redirects.
C25_TerminatesWithinBudget ==
  /\ [] /\ retry.invoked <= cfg.downloadRetries
        /\ retry.failed <= cfg.downloadRetries
        /\ hist.manifestCalls <= cfg.downloadRetries
        /\ fetch.requests <= 6
        /\ fetch.requests <= fetch.followed + 1 /\ fetch.followed <= 5
        /\ exitCode \in {Running, 0, 1}
        /\ Done <=> exitCode # Running
  /\ <>(Done /\ exitCode \in {0, 1})

\* a run that used up the budget of both downloads and every redirect of a
\* manifest fetch has ended
C25_Witness ==
  /\ Done /\ exitCode = 1
  /\ cfg.downloadRetries = MaxRetries
  /\ hist.manifestCalls = MaxRetries /\ hist.manifestFails = MaxRetries
  /\ StartsWith(error.message,
       "checksum file unavailable: checksum download failed after "
         \o DecStr(MaxRetries) \o " attempts: too many redirects")

(* ------------- the retry budget for arbitrary settings ----------------- *)

\* longest value of CODEXLINE_DOWNLOAD_RETRIES explored, in characters
MaxEnvLen == 3

\* the characters such a value is made of
EnvChars == { "0", "1", "-", "+", " ", "a", "." }

\* the values explored; the empty one stands for a variable that is not set
EnvValues == UNION { [1..n -> EnvChars] : n \in 0..MaxEnvLen }

\* A run with any value of CODEXLINE_DOWNLOAD_RETRIES, either at its start
\* or at the point where its first call of the binary download has returned.
BudgetInit ==
  /\ \E v \in EnvValues :
       cfg = [skipDownload |-> FALSE, platform |-> "linux", arch |-> "x64",
              baseUrlEnv |-> Unset, versionEnv |-> Unset,
              downloadRetriesEnv |-> v,
              downloadRetries |-> readPositiveInt(v, DefaultRetries),
              verifyChecksum |-> TRUE, requireChecksum |-> TRUE]
  /\ \/ /\ pc = "start"
        /\ fs = [out |-> Absent, tmp |-> Absent]
        /\ retry = IdleRetry
        /\ hist = [preOut |-> Absent, attemptPre |-> Absent,
                   stage |-> "Resolve", verified |-> FALSE, attemptBytes |-> 0,
                   networkUsed |-> FALSE, cleanupFailed |-> FALSE,
                   manifestCalls |-> 0, manifestFails |-> 0]
     \/ /\ pc = "downloaded"
        /\ fs = [out |-> File([id |-> "b1", len |-> FileLen], CreateMode, FALSE),
                 tmp |-> Absent]
        /\ retry = [NewRetry(BinaryDownload, cfg.downloadRetries) EXCEPT !.invoked = 1]
        /\ hist = [preOut |-> Absent, attemptPre |-> Absent,
                   stage |-> "Download", verified |-> FALSE, attemptBytes |-> FileLen,
                   networkUsed |-> TRUE, cleanupFailed |-> FALSE,
                   manifestCalls |-> 0, manifestFails |-> 0]
  /\ fetch = IdleFetch
  /\ checksums = NoText
  /\ expected = NoDigest
  /\ error = NoError
  /\ exitCode = Running
  /\ launch = NotLaunched
  /\ console = QuietConsole

\* the run against a server that refuses every connection
BudgetNext ==
  \/ StartInstall \/ RetryLoop \/ RetryCatch \/ SleepDone
  \/ DlBegin \/ IssueRequest \/ OnRequestError \/ DlCatch
  \/ AfterDownload \/ ChecksumUnavailable \/ CleanupOut \/ CleanupTmp

SpecBudget == BudgetInit /\ [][BudgetNext]_vars

\* v is an optionally signed decimal integer
IsIntegerLiteral(v) ==
  /\ v # <<>>
  /\ LET d == IF Head(v) \in {"-", "+"} THEN Tail(v) ELSE v IN
       d # <<>> /\ \A k \in 1..Len(d) : d[k] \in Digits

\* the integer such a literal denotes
LiteralValue(v) ==
  IF Head(v) = "-" THEN 0 - DecValue(Tail(v))
  ELSE IF Head(v) = "+" THEN DecValue(Tail(v)) ELSE DecValue(v)

\* message ends with suffix
EndsWith(message, suffix) ==
  /\ Len(message) >= Len(suffix)
  /\ SubSeq(message, Len(message) - Len(suffix) + 1, Len(message)) = suffix

C26_WitnessZero ==
  /\ cfg.downloadRetriesEnv = << "0" >>
  /\ RetryExhausted /\ retry.name = BinaryDownload /\ retry.invoked = 3

\* a value that only begins with an integer is read up to its first other character
C26_WitnessPrefix ==
  /\ cfg.downloadRetriesEnv = << "1", "a" >>
  /\ RetryExhausted /\ retry.invoked = 1


(* ------------------------- the command dispatcher ---------------------- *)

\* the dispatcher has run with a first argument other than "bridge"
RanBinaryBranch == launch.state # "none" /\ (launch.args = <<>> \/ launch.args[1] # "bridge")

\* the dispatcher ended at lines 29-31
ReportedMissing ==
  /\ launch.stderr = <<"codexline binary is missing.", ReinstallHint>>
  /\ launch.exit = 1
  /\ launch.file = <<>>

\* the dispatcher called spawn on the binary
SpawnedBinary == launch.state # "none" /\ launch.file = binaryPath

\* C22: invoked with no arguments, the wrapper passes --plain to the binary
\* exactly when it does not run on a terminal; on a terminal the binary is
\* started without it and opens the interactive menu.
C22_PlainOnlyOffTerminal ==
  (SpawnedBinary /\ launch.args = <<>>) =>
     (launch.runArgs = <<"--plain">> <=> ~launch.isTTY)

\* C27 as stated: on a supported platform the dispatcher reports the binary
\* missing exactly when no file is at the installer's output path and spawns
\* that file otherwise, never reports it missing after a successful install
\* and always reports it missing after a failed one.
C27_MissingIffNotInstalled ==
  (target # NoTarget /\ RanBinaryBranch) =>
     /\ ReportedMissing <=> ~fs.out.exists
     /\ ~ReportedMissing => launch.file = outPath
     /\ Success => ~ReportedMissing
     /\ HardFailure => ReportedMissing

\* C27 amended: as above, except that after a failed install the binary is
\* reported missing unless the cleanup could not unlink the file the run
\* found at the output path; the dispatcher then spawns that older file.
C27_MissingUnlessOldFileLeft ==
  (target # NoTarget /\ RanBinaryBranch) =>
     /\ ReportedMissing <=> ~fs.out.exists
     /\ ~ReportedMissing => launch.file = outPath /\ launch.runArgs = runArgs(launch.args, launch.isTTY)
     /\ Success => ~ReportedMissing /\ PlacedByRun(FileAt(launch.file))
     /\ (HardFailure /\ ~ReportedMissing) => fs.out = hist.preOut /\ hist.cleanupFailed
     /\ (HardFailure /\ ~hist.preOut.exists) => ReportedMissing

\* the binary put in place by a successful install on Windows is spawned
C27_Witness ==
  /\ Success /\ cfg.platform = "win32" /\ SpawnedBinary
  /\ launch.file = outPath /\ launch.args = <<"--json">>

\* a failed install that removed its output is followed by the report
C27_WitnessMissing ==
  /\ HardFailure /\ hist.preOut.exists /\ ~fs.out.exists
  /\ RanBinaryBranch /\ ReportedMissing

\* a failed install that could not unlink the older file is followed by a
\* spawn of that file
C27_WitnessOldFile ==
  /\ HardFailure /\ hist.cleanupFailed /\ SpawnedBinary /\ fs.out = hist.preOut


(* ------------- two installers on the same vendor directory ------------- *)

\* Two postinstall processes (two npm installs of the same package tree) run
\* lines 43-64 at once on a POSIX host with CODEXLINE_DOWNLOAD_RETRIES=1 and
\* CODEXLINE_VERIFY_CHECKSUM=0 against a server that answers 200. A path names
\* an inode; a write stream keeps the inode it opened whatever happens to the
\* name. In this specification
\*   fs       = [out, tmp : inode named by the path, chunks : inode -> the
\*               chunk positions written so far]
\*   pc, fetch, error, exitCode are functions of the process.
Procs == { 1, 2 }

NoInode == 0

\* the inode of a binary left by an earlier install
OldInode == 3

Inodes == Procs \cup { OldInode }

AllChunks == 1 .. FileLen

IdleStream == [fd |-> NoInode, written |-> 0]

RaceInit ==
  /\ cfg = [skipDownload |-> FALSE, platform |-> "linux", arch |-> "x64",
            baseUrlEnv |-> Unset, versionEnv |-> Unset,
            downloadRetries |-> readPositiveInt(<<"1">>, DefaultRetries),
            verifyChecksum |-> FALSE, requireChecksum |-> FALSE]
  /\ \E o \in { NoInode, OldInode } :
       fs = [out |-> o, tmp |-> NoInode,
             chunks |-> [i \in Inodes |-> IF i = OldInode THEN AllChunks ELSE {}]]
  /\ pc = [p \in Procs |-> "start"]
  /\ fetch = [p \in Procs |-> IdleStream]
  /\ error = [p \in Procs |-> NoError]
  /\ exitCode = [p \in Procs |-> Running]
  /\ retry = IdleRetry
  /\ checksums = NoText
  /\ expected = NoDigest
  /\ launch = NotLaunched
  /\ console = QuietConsole
  /\ hist = [interfered |-> FALSE]

\* process q holds a write stream on the temp file, opened and not yet renamed
Staging(q) == pc[q] \in { "writing", "rmdest", "rename" }

\* an operation of p on the temp path hits the file another process is staging
Interferes(p) ==
  \E q \in Procs \ {p} : Staging(q) /\ fs.tmp # NoInode /\ fs.tmp = fetch[q].fd

Noted(p) == [hist EXCEPT !.interfered = @ \/ Interferes(p)]

RaceRest == <<cfg, launch, retry, checksums, expected, console>>

\* line 169: removeFileIfExists(tempPath), then the request is sent
RaceRemoveTemp(p) ==
  /\ pc[p] = "start"
  /\ fs' = [fs EXCEPT !.tmp = NoInode]
  /\ hist' = Noted(p)
  /\ pc' = [pc EXCEPT ![p] = "request"]
  /\ UNCHANGED <<fetch, error, exitCode>>
  /\ UNCHANGED RaceRest

\* lines 172-173: the response arrives and fs.createWriteStream(tempPath)
\* opens the path with flag "w": an absent file is created, an existing one
\* is truncated
RaceOpen(p) ==
  /\ pc[p] = "request"
  /\ LET fd == IF fs.tmp = NoInode THEN p ELSE fs.tmp IN
       /\ fs' = [fs EXCEPT !.tmp = fd, !.chunks[fd] = {}]
       /\ fetch' = [fetch EXCEPT ![p] = [fd |-> fd, written |-> 0]]
  /\ hist' = Noted(p)
  /\ pc' = [pc EXCEPT ![p] = "writing"]
  /\ UNCHANGED <<error, exitCode>>
  /\ UNCHANGED RaceRest

\* mutant: the pipeline resolves after the first chunk
pipelineDoneEarly(written) == written >= 1

\* the response has been written to its end
pipelineDone(written) == written = FileLen

\* line 173: the pipeline writes the next chunk at the stream's own position
RaceWrite(p) ==
  /\ pc[p] = "writing"
  /\ ~pipelineDone(fetch[p].written)
  /\ fs' = [fs EXCEPT !.chunks[fetch[p].fd] = @ \cup { fetch[p].written + 1 }]
  /\ fetch' = [fetch EXCEPT ![p].written = @ + 1]
  /\ UNCHANGED <<pc, error, exitCode, hist>>
  /\ UNCHANGED RaceRest

\* line 173: the pipeline resolves
RaceFinish(p) ==
  /\ pc[p] = "writing"
  /\ pipelineDone(fetch[p].written)
  /\ pc' = [pc EXCEPT ![p] = "rmdest"]
  /\ UNCHANGED <<fs, fetch, error, exitCode, hist>>
  /\ UNCHANGED RaceRest

\* line 174: removeFileIfExists(dest)
RaceRemoveDest(p) ==
  /\ pc[p] = "rmdest"
  /\ fs' = [fs EXCEPT !.out = NoInode]
  /\ pc' = [pc EXCEPT ![p] = "rename"]
  /\ UNCHANGED <<fetch, error, exitCode, hist>>
  /\ UNCHANGED RaceRest

\* line 175: fs.renameSync(tempPath, dest) moves whatever the temp path names
\* now; ENOENT if it names nothing
RaceRename(p) ==
  /\ pc[p] = "rename"
  /\ IF fs.tmp = NoInode
       THEN /\ error' = [error EXCEPT ![p] = Err("fs", "ENOENT: no such file or directory, rename")]
            /\ pc' = [pc EXCEPT ![p] = "dlcatch"]
            /\ UNCHANGED <<fs, hist>>
       ELSE /\ fs' = [fs EXCEPT !.out = fs.tmp, !.tmp = NoInode]
            /\ hist' = Noted(p)
            /\ pc' = [pc EXCEPT ![p] = "chmod"]
            /\ UNCHANGED error
  /\ UNCHANGED <<fetch, exitCode>>
  /\ UNCHANGED RaceRest

\* lines 176-179: removeFileIfExists(tempPath) and rethrow; withRetry has no
\* attempt left and rejects
RaceDlCatch(p) ==
  /\ pc[p] = "dlcatch"
  /\ fs' = [fs EXCEPT !.tmp = NoInode]
  /\ hist' = Noted(p)
  /\ pc' = [pc EXCEPT ![p] = "cleanOut"]
  /\ UNCHANGED <<fetch, error, exitCode>>
  /\ UNCHANGED RaceRest

\* lines 59-63: fs.chmodSync(outPath, 0o755) and the process ends with 0;
\* ENOENT if the output path names nothing any more
RaceChmod(p) ==
  /\ pc[p] = "chmod"
  /\ IF fs.out = NoInode
       THEN /\ error' = [error EXCEPT ![p] = Err("fs", "ENOENT: no such file or directory, chmod")]
            /\ pc' = [pc EXCEPT ![p] = "cleanOut"]
            /\ UNCHANGED exitCode
       ELSE /\ pc' = [pc EXCEPT ![p] = "done"]
            /\ exitCode' = [exitCode EXCEPT ![p] = ExitStatus("drained")]
            /\ UNCHANGED error
  /\ UNCHANGED <<fs, fetch, hist>>
  /\ UNCHANGED RaceRest

\* line 37: removeFileIfExists(outPath)
RaceCleanupOut(p) ==
  /\ pc[p] = "cleanOut"
  /\ fs' = [fs EXCEPT !.out = NoInode]
  /\ pc' = [pc EXCEPT ![p] = "cleanTmp"]
  /\ UNCHANGED <<fetch, error, exitCode, hist>>
  /\ UNCHANGED RaceRest

\* lines 38-40: removeFileIfExists(outPath + ".tmp"); process.exit(1)
RaceCleanupTmp(p) ==
  /\ pc[p] = "cleanTmp"
  /\ fs' = [fs EXCEPT !.tmp = NoInode]
  /\ hist' = Noted(p)
  /\ pc' = [pc EXCEPT ![p] = "done"]
  /\ exitCode' = [exitCode EXCEPT ![p] = ExitStatus("failure")]
  /\ UNCHANGED <<fetch, error>>
  /\ UNCHANGED RaceRest

RaceNext ==
  \E p \in Procs :
    \/ RaceRemoveTemp(p) \/ RaceOpen(p) \/ RaceWrite(p) \/ RaceFinish(p)
    \/ RaceRemoveDest(p) \/ RaceRename(p) \/ RaceDlCatch(p) \/ RaceChmod(p)
    \/ RaceCleanupOut(p) \/ RaceCleanupTmp(p)

SpecRace == RaceInit /\ [][RaceNext]_vars

\* the final output path names a file that is not a complete download
PartialAtOut == fs.out \in Procs /\ fs.chunks[fs.out] # AllChunks

\* C24: two installers on the same paths exclude nothing: a file that is not
\* a complete download can become visible at the final output path, and it
\* does so only after both processes have begun and one of them has removed,
\* truncated or renamed the temp file the other was staging; a process that
\* runs before the other has begun publishes only complete files.
C24_PartialOnlyUnderRace ==
  PartialAtOut => /\ hist.interfered
                  /\ \A p \in Procs : pc[p] # "start"

\* one process renamed to the output path the temp file the other had just
\* begun to write, after its own had been unlinked under it
C24_Witness ==
  /\ PartialAtOut
  /\ hist.interfered
  /\ \E p \in Procs : \E q \in Procs \ {p} :
       /\ pc[p] = "chmod"
       /\ pc[q] = "writing" /\ fetch[q].fd = fs.out /\ fetch[p].fd # fs.out
       /\ fetch[p].written = FileLen /\ fetch[q].written < FileLen

\* both processes have ended, one of them reporting success, and the output
\* path names nothing
C24_WitnessLost ==
  /\ \A p \in Procs : pc[p] = "done"
  /\ \E p \in Procs : exitCode[p] = 0
  /\ fs.out = NoInode

====
